---- MODULE Spec2Model ----
(***************************************************************************)
(* Booking-management backend (cc-crm-backend): the booking controller in  *)
(* its three variants, the duplicate-customer matcher (checkPromoHunter),  *)
(* the read-through cache of getOldBookings, the reports and the user      *)
(* administration of the auth controller.                                  *)
(*                                                                         *)
(* Text cells are sequences of one-character strings, so that              *)
(* toLowerCase, trim, replace(/\D/g,'') and includes are computed as the   *)
(* code computes them.  The empty cell '' is the empty sequence.           *)
(***************************************************************************)
EXTENDS Integers, Sequences, FiniteSets, TLC

VARIABLES variant, now, db, intake, cache, nextId, res, users, inflight

vars == <<variant, now, db, intake, cache, nextId, res, users, inflight>>

(***************************************************************************)
(* Bounds of the model.                                                    *)
(***************************************************************************)
\* most DB data rows the write handlers may create
MaxRows == 2
\* most advances of the wall clock
MaxTicks == 1
\* most history rows of a drawn matcher input
MaxHist == 2
\* most DB rows of a drawn report input
MaxReportRows == 2

\* appointment days reach from yesterday to today + MaxDayOffset
MaxDayOffset == 9

\* raw price cells have at most MaxPriceLen characters
MaxPriceLen == 3

\* rows of a drawn store for the listing, and its page numbers and page sizes
MaxListRows == 3

MaxPage == 2

MaxLimit == 2

\* rows of a drawn Intake sheet for the dashboard
MaxDashRows == 2

\* rows of a drawn store for the sales report
MaxSalesRows == 3

\* users of the initial Users sheet, and requests that may be between two of
\* their store calls at the same time
MaxUsers == 2

MaxInflight == 2

(***************************************************************************)
(* JavaScript string primitives.                                           *)
(***************************************************************************)
UpperLetters == <<"A","B","C","D","E","F","G","H","I","J","K","L","M",
                  "N","O","P","Q","R","S","T","U","V","W","X","Y","Z">>

LowerLetters == <<"a","b","c","d","e","f","g","h","i","j","k","l","m",
                  "n","o","p","q","r","s","t","u","v","w","x","y","z">>

Digits == {"0","1","2","3","4","5","6","7","8","9"}

LowerChar(c) ==
  IF \E i \in 1..26 : UpperLetters[i] = c
  THEN LowerLetters[CHOOSE i \in 1..26 : UpperLetters[i] = c]
  ELSE c

toLowerCase(s) == [i \in 1..Len(s) |-> LowerChar(s[i])]

IsDigit(c) == c \in Digits

\* str.replace(/\D/g, '')
stripNonDigits(s) == SelectSeq(s, IsDigit)

RECURSIVE trimStart(_)
trimStart(s) ==
  IF s # <<>> /\ Head(s) = " " THEN trimStart(Tail(s)) ELSE s

RECURSIVE trimEnd(_)
trimEnd(s) ==
  IF s # <<>> /\ s[Len(s)] = " " THEN trimEnd(SubSeq(s, 1, Len(s) - 1)) ELSE s

trim(s) == trimEnd(trimStart(s))

DigitValue(c) ==
  CASE c = "0" -> 0 [] c = "1" -> 1 [] c = "2" -> 2 [] c = "3" -> 3 [] c = "4" -> 4
    [] c = "5" -> 5 [] c = "6" -> 6 [] c = "7" -> 7 [] c = "8" -> 8 [] c = "9" -> 9

DigitChar(n) ==
  CASE n = 0 -> "0" [] n = 1 -> "1" [] n = 2 -> "2" [] n = 3 -> "3" [] n = 4 -> "4"
    [] n = 5 -> "5" [] n = 6 -> "6" [] n = 7 -> "7" [] n = 8 -> "8" [] n = 9 -> "9"

\* numbers are counted in hundredths: 1 is written Scale
Scale == 100

\* the decimal digits of a whole number
RECURSIVE decimalDigits(_)
decimalDigits(n) ==
  IF n < 10 THEN <<DigitChar(n)>>
  ELSE Append(decimalDigits(n \div 10), DigitChar(n % 10))

\* the text a sheet cell shows for a non-negative number: String(n)
numberCell(n) ==
  LET frac == n % Scale
  IN decimalDigits(n \div Scale) \o
     (IF frac = 0 THEN <<>>
      ELSE IF frac % 10 = 0 THEN <<".", DigitChar(frac \div 10)>>
      ELSE <<".", DigitChar(frac \div 10), DigitChar(frac % 10)>>)

\* the leading run of digits of a text
RECURSIVE digitPrefix(_)
digitPrefix(s) ==
  IF s = <<>> \/ ~IsDigit(Head(s)) THEN <<>> ELSE <<Head(s)>> \o digitPrefix(Tail(s))

RECURSIVE digitsValue(_)
digitsValue(s) ==
  IF s = <<>> THEN 0
  ELSE 10 * digitsValue(SubSeq(s, 1, Len(s) - 1)) + DigitValue(s[Len(s)])

\* the parser's not-a-number, and a number
NaN == [isNaN |-> TRUE]

number(n) == [isNaN |-> FALSE, value |-> n]

\* the hundredths a run of fraction digits stands for (digits after the
\* second are not kept)
fractionValue(fp) ==
  IF fp = <<>> THEN 0
  ELSE IF Len(fp) = 1 THEN 10 * DigitValue(fp[1])
  ELSE 10 * DigitValue(fp[1]) + DigitValue(fp[2])

\* parseFloat: leading blanks are skipped, then an optional sign, a run of
\* digits and an optional point with a run of digits are read; the rest of
\* the text is ignored; no digit gives NaN
parseFloat(s) ==
  LET t == trimStart(s)
      signed == t # <<>> /\ Head(t) \in {"-", "+"}
      u == IF signed THEN Tail(t) ELSE t
      ip == digitPrefix(u)
      rest == SubSeq(u, Len(ip) + 1, Len(u))
      fp == IF rest # <<>> /\ Head(rest) = "." THEN digitPrefix(Tail(rest)) ELSE <<>>
      magnitude == digitsValue(ip) * Scale + fractionValue(fp)
  IN IF ip = <<>> /\ fp = <<>> THEN NaN
     ELSE IF signed /\ Head(t) = "-" THEN number(0 - magnitude)
     ELSE number(magnitude)

\* the template literal `${a} ${b}`
joinSpace(a, b) == a \o <<" ">> \o b

\* str.includes(sub)
includes(s, sub) ==
  \E i \in 0..(Len(s) - Len(sub)) : SubSeq(s, i + 1, i + Len(sub)) = sub

\* the value a request leaves out (JavaScript undefined)
Undefined == <<"undefined-value">>

\* JavaScript truthiness of a text value: '' and undefined are falsy
Truthy(x) == x # <<>> /\ x # Undefined

\* x || d
OrElse(x, d) == IF Truthy(x) THEN x ELSE d

(***************************************************************************)
(* Status texts.                                                           *)
(***************************************************************************)
sScheduled == <<"S","c","h","e","d","u","l","e","d">>

sPromoHunter == <<"P","r","o","m","o"," ","h","u","n","t","e","r">>

sCancelled == <<"C","a","n","c","e","l","l","e","d">>

sCanceled == <<"C","a","n","c","e","l","e","d">>

sArrived == <<"A","r","r","i","v","e","d">>

sCancelLower == <<"c","a","n","c","e","l">>

sCancelledLower == <<"c","a","n","c","e","l","l","e","d">>

\* a status is cancelled-class when it contains 'cancel', case-insensitively
IsCancelledClass(status) == includes(toLowerCase(OrElse(status, <<>>)), sCancelLower)

(***************************************************************************)
(* Date and time cells.  A time is a count of minutes; a cell holds a time *)
(* (a formatted date), nothing, or text no date format accepts.            *)
(***************************************************************************)
MinutesPerDay == 1440

EmptyCell == -1

BadText == -2

\* the parser's null
Null == -1

DayOf(t) == t \div MinutesPerDay

(***************************************************************************)
(* checkPromoHunter: the duplicate-customer matcher.                       *)
(* Variants of the controller: "current" (44 columns, social handle,       *)
(* first match reported), "middle" and "earliest" (no social handle, all   *)
(* matches joined).                                                        *)
(***************************************************************************)
Variants == {"current", "middle", "earliest"}

\* candidate normalisation
candFullName(c) == trim(toLowerCase(joinSpace(c.firstName, c.lastName)))

candEmail(c) == trim(toLowerCase(OrElse(c.email, <<>>)))

candPhone(c) == trim(stripNonDigits(OrElse(c.phone, <<>>)))

candSocial(c) == trim(toLowerCase(OrElse(c.socialMedia, <<>>)))

candCompanionFullName(c) ==
  IF Truthy(c.companionFirstName) /\ Truthy(c.companionLastName)
  THEN trim(toLowerCase(joinSpace(c.companionFirstName, c.companionLastName)))
  ELSE <<>>

\* history row normalisation
existingFullName(row) ==
  trim(joinSpace(trim(toLowerCase(OrElse(row.firstName, <<>>))),
                 trim(toLowerCase(OrElse(row.lastName, <<>>)))))

existingEmail(row) == trim(toLowerCase(OrElse(row.email, <<>>)))

existingPhone(row) == trim(stripNonDigits(OrElse(row.phone, <<>>)))

existingSocialMedia(row) == trim(toLowerCase(OrElse(row.socialMedia, <<>>)))

existingCompanionFullName(row) ==
  LET cf == trim(toLowerCase(OrElse(row.companionFirstName, <<>>)))
      cl == trim(toLowerCase(OrElse(row.companionLastName, <<>>)))
  IN IF cf # <<>> /\ cl # <<>> THEN trim(joinSpace(cf, cl)) ELSE <<>>

\* the five conditions of the if / else-if chain
nameCond(c, row) ==
  /\ existingFullName(row) # <<>>
  /\ candFullName(c) # <<>>
  /\ existingFullName(row) = candFullName(c)

emailCond(c, row) ==
  /\ candEmail(c) # <<>>
  /\ existingEmail(row) # <<>>
  /\ existingEmail(row) = candEmail(c)

phoneCond(c, row) ==
  /\ candPhone(c) # <<>>
  /\ existingPhone(row) # <<>>
  /\ existingPhone(row) = candPhone(c)

socialCond(v, c, row) ==
  /\ v = "current"
  /\ candSocial(c) # <<>>
  /\ existingSocialMedia(row) # <<>>
  /\ existingSocialMedia(row) = candSocial(c)

previouslyCompanionCond(c, row) ==
  /\ candCompanionFullName(c) # <<>>
  /\ existingCompanionFullName(row) # <<>>
  /\ existingCompanionFullName(row) = candCompanionFullName(c)

companionWasCustomerCond(c, row) ==
  /\ candCompanionFullName(c) # <<>>
  /\ existingFullName(row) # <<>>
  /\ existingFullName(row) = candCompanionFullName(c)

NoMatch == [reason |-> "", source |-> ""]

matchRowNoEmail(v, c, row) ==
  IF nameCond(c, row) THEN [reason |-> "Customer Name Match", source |-> "customer"]
  ELSE IF phoneCond(c, row) THEN [reason |-> "Phone Match", source |-> "customer"]
  ELSE IF socialCond(v, c, row) THEN [reason |-> "Social Media Match", source |-> "customer"]
  ELSE IF previouslyCompanionCond(c, row) THEN [reason |-> "Previously Companion", source |-> "companion"]
  ELSE IF companionWasCustomerCond(c, row) THEN [reason |-> "Companion Match (was customer)", source |-> "companion"]
  ELSE NoMatch

\* the if / else-if chain: the first true condition names the reason
matchRow(v, c, row) ==
  IF nameCond(c, row) THEN [reason |-> "Customer Name Match", source |-> "customer"]
  ELSE IF emailCond(c, row) THEN [reason |-> "Email Match", source |-> "customer"]
  ELSE IF phoneCond(c, row) THEN [reason |-> "Phone Match", source |-> "customer"]
  ELSE IF socialCond(v, c, row) THEN [reason |-> "Social Media Match", source |-> "customer"]
  ELSE IF previouslyCompanionCond(c, row) THEN [reason |-> "Previously Companion", source |-> "companion"]
  ELSE IF companionWasCustomerCond(c, row) THEN [reason |-> "Companion Match (was customer)", source |-> "companion"]
  ELSE NoMatch

\* the scan loop: matches in storage order; data row i is sheet row i + 1
RECURSIVE scanMatches(_, _, _, _)
scanMatches(v, c, rows, i) ==
  IF i > Len(rows) THEN <<>>
  ELSE LET m == matchRow(v, c, rows[i])
       IN (IF m.reason # ""
           THEN <<[rowNumber |-> i + 1, reason |-> m.reason, source |-> m.source,
                   branch |-> OrElse(rows[i].branch, <<>>)]>>
           ELSE <<>>) \o scanMatches(v, c, rows, i + 1)

\* the result for a non-empty match list: the first match ("current"), or
\* every match joined with ', ' (the two earlier variants).  A joined text
\* is the sequence of its parts; `Row n` is n; `source (branch)` is a pair.
matchResult(v, matches) ==
  IF v = "current"
  THEN LET firstMatch == matches[1]
       IN [status |-> sPromoHunter,
           matchReason |-> <<firstMatch.reason>>,
           matchedSource |-> << <<firstMatch.source, firstMatch.branch>> >>,
           matchedRow |-> <<firstMatch.rowNumber>>,
           matchCount |-> Len(matches)]
  ELSE [status |-> sPromoHunter,
        matchReason |-> [k \in 1..Len(matches) |-> matches[k].reason],
        matchedSource |-> [k \in 1..Len(matches) |-> <<matches[k].source, matches[k].branch>>],
        matchedRow |-> [k \in 1..Len(matches) |-> matches[k].rowNumber],
        matchCount |-> Len(matches)]

\* rows: the data rows of the DB sheet (the header row is not modelled)
checkPromoHunter(v, c, rows) ==
  IF Len(rows) = 0
  THEN [status |-> sScheduled, matchReason |-> <<>>, matchedSource |-> <<>>,
        matchedRow |-> <<>>]
  ELSE LET matches == scanMatches(v, c, rows, 1)
       IN IF Len(matches) > 0
          THEN matchResult(v, matches)
          ELSE [status |-> sScheduled, matchReason |-> <<>>, matchedSource |-> <<>>,
                matchedRow |-> <<>>, matchCount |-> 0]

(***************************************************************************)
(* Request inputs of the write handlers.                                   *)
(***************************************************************************)
nAn == <<"A","n">>

nBo == <<"B","o">>

nLee == <<"L","e","e">>

eAn == <<"a","n","@","x">>

eBo == <<"b","o","@","x">>

pAn == <<"1","1">>

pBo == <<"2","2">>

bFeliz == <<"F","E","L","I","Z">>

bPop == <<"P","O","P">>

agKim == <<"K","i","m">>

\* the identity part of a booking form
Customers ==
  { [firstName |-> nAn, lastName |-> nLee, email |-> eAn, phone |-> pAn,
     socialMedia |-> <<>>, companionFirstName |-> <<>>, companionLastName |-> <<>>],
    [firstName |-> nBo, lastName |-> nLee, email |-> eBo, phone |-> pBo,
     socialMedia |-> <<>>, companionFirstName |-> <<>>, companionLastName |-> <<>>] }

\* appointment days a form may carry
AppointmentDays == {1}

\* bodies bookingSchema accepts (status defaults to 'Scheduled')
CreateBodies ==
  { [firstName |-> c.firstName, lastName |-> c.lastName, email |-> c.email,
     phone |-> c.phone, socialMedia |-> c.socialMedia,
     companionFirstName |-> c.companionFirstName,
     companionLastName |-> c.companionLastName,
     status |-> st, branch |-> bFeliz, date |-> d, time |-> 600,
     totalPrice |-> 100 * Scale, agent |-> agKim]
    : c \in Customers, st \in {sScheduled, sArrived}, d \in AppointmentDays }
  \ { [firstName |-> nBo, lastName |-> nLee, email |-> eBo, phone |-> pBo,
       socialMedia |-> <<>>, companionFirstName |-> <<>>,
       companionLastName |-> <<>>, status |-> sArrived, branch |-> bFeliz,
       date |-> d, time |-> 600, totalPrice |-> 100 * Scale, agent |-> agKim]
      : d \in AppointmentDays }

\* the listing's price: row[12] || '0' with every character but digits and
\* the point removed, then parseFloat(price) || 0
stripPrice(cell) ==
  LET price == SelectSeq(OrElse(cell, <<"0">>), LAMBDA ch : IsDigit(ch) \/ ch = ".")
      parsed == parseFloat(price)
  IN IF parsed.isNaN THEN 0 ELSE parsed.value

\* status values an update form may carry (Undefined: the field is left out)
UpdateStatuses == {Undefined, sCancelled, sCanceled}

\* the edit form of a listed booking: its fields as the listing shows them
formOf(row) ==
  [firstName |-> row.firstName, lastName |-> row.lastName, email |-> row.email,
   phone |-> row.phone, socialMedia |-> row.socialMedia,
   companionFirstName |-> row.companionFirstName,
   companionLastName |-> row.companionLastName,
   status |-> row.status, branch |-> row.branch, dateTime |-> EmptyCell,
   totalPrice |-> stripPrice(row.totalPrice), agent |-> row.agent]

\* a form nobody filled from a listing
blankForm ==
  [firstName |-> nAn, lastName |-> nLee, email |-> eAn, phone |-> pAn,
   socialMedia |-> <<>>, companionFirstName |-> <<>>, companionLastName |-> <<>>,
   status |-> Undefined, branch |-> bFeliz, dateTime |-> EmptyCell,
   totalPrice |-> 100 * Scale, agent |-> agKim]

\* bodies of an update request for sheet row n: the row's form with a new
\* status, or with another agent
UpdateBodies(rows, n) ==
  LET form == IF n - 1 \in 1..Len(rows) THEN formOf(rows[n - 1]) ELSE blankForm
  IN { [form EXCEPT !.status = st] : st \in UpdateStatuses }

Roles == {"Admin", "Agent"}

(***************************************************************************)
(* The tabular store and the cache.                                        *)
(***************************************************************************)
\* node-cache stdTTL: 300 seconds, in minutes
StdTTL == 5

NoEntry == [present |-> FALSE]

\* cache.get: the entry, unless absent or older than the TTL
cacheGet(c, t) ==
  IF c.present /\ t < c.setAt + StdTTL THEN c ELSE NoEntry

\* cache.set
cacheSet(val, t) == [present |-> TRUE, val |-> val, setAt |-> t]

\* sheetsService.updateRow: sheet row n is data row n - 1
updateRow(rows, n, row) == [rows EXCEPT ![n - 1] = row]

\* formatDateTime: the form's date (a day) and time (minutes after midnight)
\* as one formatted date cell
formatDateTime(date, time) == date * MinutesPerDay + time

(***************************************************************************)
(* createBooking                                                           *)
(***************************************************************************)
finalStatusOf(b, promo) ==
  IF promo.status = sPromoHunter THEN sPromoHunter ELSE OrElse(b.status, sScheduled)

\* the Intake row (37 columns; the columns the handlers read or compare)
newRow(b, timestamp, promo, bookingId) ==
  [timestamp |-> timestamp,
   branch |-> b.branch,
   status |-> finalStatusOf(b, promo),
   firstName |-> b.firstName,
   lastName |-> b.lastName,
   phone |-> b.phone,
   email |-> OrElse(b.email, <<>>),
   date |-> formatDateTime(b.date, b.time),
   promoHunterStatus |-> promo.status,
   matchReason |-> promo.matchReason,
   matchedSource |-> promo.matchedSource,
   matchedRow |-> promo.matchedRow,
   recordId |-> bookingId]

\* the DB row (columns 0-5, 12, 14-17, 20, 21, 30-34, 42, 43)
masterDbRow(b, timestamp, promo, bookingId) ==
  [timestamp |-> timestamp,
   branch |-> b.branch,
   status |-> OrElse(b.status, sScheduled),
   date |-> formatDateTime(b.date, b.time),
   firstName |-> b.firstName,
   lastName |-> b.lastName,
   totalPrice |-> numberCell(b.totalPrice),
   phone |-> b.phone,
   socialMedia |-> OrElse(b.socialMedia, <<>>),
   email |-> OrElse(b.email, <<>>),
   agent |-> b.agent,
   companionFirstName |-> OrElse(b.companionFirstName, <<>>),
   companionLastName |-> OrElse(b.companionLastName, <<>>),
   promoHunterStatus |-> promo.status,
   matchReason |-> promo.matchReason,
   matchedSource |-> promo.matchedSource,
   matchedRow |-> promo.matchedRow,
   recordId |-> bookingId,
   dashStatus |-> finalStatusOf(b, promo),
   cancellationTime |-> EmptyCell]

\* what checkPromoHunter's catch returns when reading the DB sheet throws:
\* the string 'Unknown', every property of which reads as undefined
Unknown ==
  [status |-> Undefined, matchReason |-> Undefined, matchedSource |-> Undefined,
   matchedRow |-> Undefined]

\* the duplicate check of one request; readFails says that readSheet('DB')
\* throws inside checkPromoHunter
duplicateCheck(v, b, rows, readFails) ==
  IF readFails THEN Unknown ELSE checkPromoHunter(v, b, rows)

CreateBooking(b, readFails) ==
  /\ Len(db) < MaxRows
  /\ LET promo == duplicateCheck(variant, b, db, readFails)
         bookingId == nextId
     IN /\ intake' = Append(intake, newRow(b, now, promo, bookingId))
        /\ db' = Append(db, masterDbRow(b, now, promo, bookingId))
        /\ cache' = NoEntry
        /\ res' = [op |-> "createBooking", code |-> 201, bookingId |-> bookingId,
                   promoHunterStatus |-> promo.status]
  /\ nextId' = nextId + 1
  /\ UNCHANGED <<variant, now>>
  /\ UNCHANGED <<users, inflight>>

(***************************************************************************)
(* updateBooking                                                           *)
(***************************************************************************)
\* column 43: the existing cell, or now when the new status is 'cancelled'
cancellationTimeOf(b, existingRow, timestamp) ==
  IF Truthy(b.status) /\ toLowerCase(b.status) = sCancelledLower
  THEN timestamp
  ELSE existingRow.cancellationTime

updatedDbRowRematch(v, b, existingRow, timestamp) ==
  [timestamp |-> timestamp,
   branch |-> b.branch,
   status |-> OrElse(b.status, sScheduled),
   date |-> IF b.dateTime # EmptyCell THEN b.dateTime ELSE existingRow.date,
   firstName |-> b.firstName,
   lastName |-> b.lastName,
   totalPrice |-> numberCell(b.totalPrice),
   phone |-> b.phone,
   socialMedia |-> OrElse(b.socialMedia, <<>>),
   email |-> OrElse(b.email, <<>>),
   agent |-> b.agent,
   companionFirstName |-> OrElse(b.companionFirstName, <<>>),
   companionLastName |-> OrElse(b.companionLastName, <<>>),
   promoHunterStatus |-> sScheduled,
   matchReason |-> <<>>,
   matchedSource |-> <<>>,
   matchedRow |-> <<>>,
   recordId |-> existingRow.recordId,
   dashStatus |-> OrElse(b.status, sScheduled),
   cancellationTime |-> IF v = "earliest"
                        THEN existingRow.cancellationTime
                        ELSE cancellationTimeOf(b, existingRow, timestamp)]

\* the row written back.  Columns 30-34 are existingRow[k] || '': the cell,
\* an empty cell being ''.  The earliest variant writes 43 columns, which
\* leaves column 43 of the sheet as it was.
updatedDbRow(v, b, existingRow, timestamp) ==
  [timestamp |-> timestamp,
   branch |-> b.branch,
   status |-> OrElse(b.status, sScheduled),
   date |-> IF b.dateTime # EmptyCell THEN b.dateTime ELSE existingRow.date,
   firstName |-> b.firstName,
   lastName |-> b.lastName,
   totalPrice |-> numberCell(b.totalPrice),
   phone |-> b.phone,
   socialMedia |-> OrElse(b.socialMedia, <<>>),
   email |-> OrElse(b.email, <<>>),
   agent |-> b.agent,
   companionFirstName |-> OrElse(b.companionFirstName, <<>>),
   companionLastName |-> OrElse(b.companionLastName, <<>>),
   promoHunterStatus |-> existingRow.promoHunterStatus,
   matchReason |-> existingRow.matchReason,
   matchedSource |-> existingRow.matchedSource,
   matchedRow |-> existingRow.matchedRow,
   recordId |-> existingRow.recordId,
   dashStatus |-> OrElse(b.status, sScheduled),
   cancellationTime |-> IF v = "earliest"
                        THEN existingRow.cancellationTime
                        ELSE cancellationTimeOf(b, existingRow, timestamp)]

\* the role check of the current variant: a non-Admin may not change
\* status or agent
restrictedFields(v, role, b, existingRow) ==
  /\ v = "current"
  /\ role # "Admin"
  /\ \/ b.status # Undefined /\ b.status # existingRow.status
     \/ b.agent # Undefined /\ b.agent # existingRow.agent

\* the row-bounds check (dbRows includes the header row)
rowOutOfBounds(rowNumber, rows) ==
  rowNumber - 1 < 1 \/ rowNumber - 1 >= Len(rows) + 1

\* parseInt: the leading integer of a text, NaN when there is none
parseInt(s) ==
  LET t == trimStart(s)
      signed == t # <<>> /\ Head(t) \in {"-", "+"}
      ip == digitPrefix(IF signed THEN Tail(t) ELSE t)
  IN IF ip = <<>> THEN NaN
     ELSE IF signed /\ Head(t) = "-" THEN number(0 - digitsValue(ip))
     ELSE number(digitsValue(ip))

\* the row-number texts of update requests: sheet rows 1..MaxRows + 2
NumberRowIds == { decimalDigits(n) : n \in 1..(MaxRows + 2) }

\* the same and a text that is no number
RowIds == NumberRowIds \cup { <<"x">> }

\* the sheet row a row-number text names, 0 when it names none
rowNumberOf(id) == IF parseInt(id).isNaN THEN 0 ELSE parseInt(id).value

\* every comparison with NaN is false, so a row number that is no number
\* passes the bounds check; dbRows[NaN] is undefined and reading a column of
\* it throws, which the handler's catch answers with 500
UpdateBooking(id, role, b) ==
  /\ LET parsed == parseInt(id)
         rowNumber == parsed.value
     IN IF Len(db) = 0 \/ (~parsed.isNaN /\ rowOutOfBounds(rowNumber, db))
        THEN /\ res' = [op |-> "updateBooking", code |-> 404]
             /\ UNCHANGED <<db, cache>>
        ELSE IF parsed.isNaN
        THEN /\ res' = [op |-> "updateBooking", code |-> 500]
             /\ UNCHANGED <<db, cache>>
        ELSE IF restrictedFields(variant, role, b, db[rowNumber - 1])
        THEN /\ res' = [op |-> "updateBooking", code |-> 403]
             /\ UNCHANGED <<db, cache>>
        ELSE LET row == updatedDbRow(variant, b, db[rowNumber - 1], now)
             IN /\ db' = updateRow(db, rowNumber, row)
                /\ cache' = IF variant = "earliest" THEN cache ELSE NoEntry
                /\ res' = [op |-> "updateBooking", code |-> 200]
  /\ UNCHANGED <<variant, now, intake, nextId>>
  /\ UNCHANGED <<users, inflight>>

(***************************************************************************)
(* getBookingById                                                          *)
(***************************************************************************)
\* the id of a request: the text of a stored record_id, or the text of a
\* stored matched_row cell
BookingIds ==
  { [kind |-> "recordId", recordId |-> k] : k \in 1..(MaxRows + 1) }
  \cup { [kind |-> "matchedRow", matchedRow |-> <<n>>] : n \in 2..(MaxRows + 1) }

\* row[33] === id: index 33 is the matched_row column of both sheets (the
\* record_id is written at index 34)
column33Is(row, id) == id.kind = "matchedRow" /\ row.matchedRow = id.matchedRow

GetBookingById(id) ==
  /\ LET newBookingFound == \E i \in 1..Len(intake) : column33Is(intake[i], id)
         oldBookingFound == \E i \in 1..Len(db) : column33Is(db[i], id)
     IN res' = [op |-> "getBookingById",
                code |-> IF ~newBookingFound /\ ~oldBookingFound THEN 404 ELSE 200]
  /\ UNCHANGED <<variant, now, db, intake, cache, nextId>>
  /\ UNCHANGED <<users, inflight>>

\* parseDateString: local midnight of the day a formatted date names (the
\* slash and the month-name formats read no time of day), null for an empty
\* cell and for text no format accepts
parseDateString(dateStr) ==
  IF dateStr = EmptyCell \/ dateStr = BadText THEN Null
  ELSE DayOf(dateStr) * MinutesPerDay

(***************************************************************************)
(* getOldBookings                                                          *)
(***************************************************************************)
\* rows.slice(1).map(...): the listing's view of a DB row
parseRow(row, index) ==
  [rowNumber |-> index + 1,
   timestamp |-> row.timestamp,
   branch |-> OrElse(row.branch, <<>>),
   status |-> OrElse(row.status, <<>>),
   date |-> row.date,
   firstName |-> OrElse(row.firstName, <<>>),
   lastName |-> OrElse(row.lastName, <<>>),
   totalPrice |-> stripPrice(row.totalPrice),
   phone |-> OrElse(row.phone, <<>>),
   socialMedia |-> OrElse(row.socialMedia, <<>>),
   email |-> OrElse(row.email, <<>>),
   agent |-> OrElse(row.agent, <<>>),
   companionFirstName |-> OrElse(row.companionFirstName, <<>>),
   companionLastName |-> OrElse(row.companionLastName, <<>>)]

parseRows(rows) == [i \in 1..Len(rows) |-> parseRow(rows[i], i)]

reverse(s) == [i \in 1..Len(s) |-> s[Len(s) + 1 - i]]

floorDiv(total, limit) == total \div limit

\* Math.ceil(total / limit)
ceilDiv(total, limit) == (total + limit - 1) \div limit

\* Array.prototype.slice(start, end) with 0-based bounds
slice(s, start, end) ==
  LET lo == IF start > Len(s) THEN Len(s) ELSE start
      hi == IF end > Len(s) THEN Len(s) ELSE end
  IN IF hi <= lo THEN <<>> ELSE SubSeq(s, lo + 1, hi)

\* the branch or status value that selects every booking
All == <<"A","l","l">>

\* Date.prototype.getDay(): day 0 is 1 January 1970, a Thursday
getDay(day) == (day + 4) % 7

\* the handler's parseDate helper: null for an empty cell
parseDate(dateStr) ==
  IF dateStr = EmptyCell THEN Null ELSE parseDateString(dateStr)

\* days of the createdDateRange presets
lastDays(range) == IF range = "last7" THEN 7 ELSE IF range = "last30" THEN 30 ELSE 90

\* boundaries of the created-date filter (current variant); a custom day d
\* spans d 00:00 up to the last instant of d
createdBounds(q, t) ==
  LET today == DayOf(t) * MinutesPerDay
      tomorrow == today + MinutesPerDay
  IN IF q.createdStartDate # Null /\ q.createdEndDate # Null
     THEN [apply |-> TRUE, start |-> q.createdStartDate * MinutesPerDay,
           end |-> q.createdEndDate * MinutesPerDay + (MinutesPerDay - 1)]
     ELSE IF q.createdDateRange # "" /\ q.createdDateRange # "all"
     THEN IF q.createdDateRange = "today"
          THEN [apply |-> TRUE, start |-> today, end |-> tomorrow]
          ELSE IF q.createdDateRange \in {"last7", "last30", "last90"}
          THEN [apply |-> TRUE,
                start |-> today - lastDays(q.createdDateRange) * MinutesPerDay,
                end |-> tomorrow]
          ELSE [apply |-> TRUE, start |-> Null, end |-> Null]
     ELSE [apply |-> FALSE, start |-> Null, end |-> Null]

\* boundaries of the appointment-date filter (current variant)
appointmentBounds(q, t) ==
  LET today == DayOf(t) * MinutesPerDay
      tomorrow == today + MinutesPerDay
  IN IF q.appointmentStartDate # Null /\ q.appointmentEndDate # Null
     THEN [apply |-> TRUE, start |-> q.appointmentStartDate * MinutesPerDay,
           end |-> q.appointmentEndDate * MinutesPerDay + (MinutesPerDay - 1)]
     ELSE IF q.appointmentDateRange # "" /\ q.appointmentDateRange # "all"
     THEN IF q.appointmentDateRange = "today"
          THEN [apply |-> TRUE, start |-> today, end |-> tomorrow]
          ELSE IF q.appointmentDateRange = "tomorrow"
          THEN [apply |-> TRUE, start |-> tomorrow, end |-> tomorrow + MinutesPerDay]
          ELSE IF q.appointmentDateRange = "thisWeek"
          THEN [apply |-> TRUE, start |-> today,
                end |-> today + (6 - getDay(DayOf(t))) * MinutesPerDay
                        + (MinutesPerDay - 1)]
          ELSE [apply |-> TRUE, start |-> Null, end |-> Null]
     ELSE [apply |-> FALSE, start |-> Null, end |-> Null]

\* the search filter; the rows of this model leave the treatment cell empty
searchMatch(booking, search) ==
  LET searchLower == toLowerCase(search)
  IN \/ search = <<>>
     \/ includes(toLowerCase(booking.firstName), searchLower)
     \/ includes(toLowerCase(booking.lastName), searchLower)
     \/ includes(toLowerCase(booking.email), searchLower)
     \/ includes(booking.phone, search)
     \/ includes(toLowerCase(booking.agent), searchLower)
     \/ includes(toLowerCase(booking.branch), searchLower)

\* the single-pass filter of the current variant: a date test is made only
\* when the cell parses
passesCurrent(booking, q, t) ==
  LET cb == createdBounds(q, t)
      ab == appointmentBounds(q, t)
      createdDate == parseDate(booking.timestamp)
      appointmentDate == parseDate(booking.date)
  IN /\ ~(q.branch # <<>> /\ q.branch # All /\ booking.branch # q.branch)
     /\ ~(q.status # <<>> /\ q.status # All /\ booking.status # q.status)
     /\ ~(cb.apply /\ createdDate # Null
          /\ (createdDate < cb.start \/ createdDate >= cb.end))
     /\ ~(ab.apply /\ appointmentDate # Null
          /\ (appointmentDate < ab.start \/ appointmentDate > ab.end))
     /\ searchMatch(booking, q.search)

\* days back of the dateRange presets of the middle and earliest variants
cutoffDays(range) ==
  IF range = "yesterday" THEN 1 ELSE IF range = "7" THEN 7
  ELSE IF range = "30" THEN 30 ELSE IF range = "90" THEN 90 ELSE 0

\* the filters of the middle and earliest variants: one date filter on the
\* appointment date, which drops a booking whose date does not parse
passesEarlier(booking, q, t) ==
  LET bookingDate == parseDateString(booking.date)
      cutoffDate == (DayOf(t) - cutoffDays(q.dateRange)) * MinutesPerDay
  IN /\ ~(q.branch # <<>> /\ q.branch # All) \/ booking.branch = q.branch
     /\ ~(q.status # <<>> /\ q.status # All) \/ booking.status = q.status
     /\ IF q.startDate # Null /\ q.endDate # Null
        THEN /\ bookingDate # Null
             /\ bookingDate >= q.startDate * MinutesPerDay
             /\ bookingDate <= q.endDate * MinutesPerDay + (MinutesPerDay - 1)
        ELSE IF q.dateRange # "" /\ q.dateRange # "all"
        THEN bookingDate # Null /\ bookingDate >= cutoffDate
        ELSE TRUE
     /\ searchMatch(booking, q.search)

filterBookings(v, allBookings, q, t) ==
  SelectSeq(allBookings,
            LAMBDA booking : IF v = "current" THEN passesCurrent(booking, q, t)
                             ELSE passesEarlier(booking, q, t))

\* sort and paginate the filtered bookings
listBookings(filteredBookings, page, limit, sortOrder) ==
  LET sorted == IF sortOrder = "newest" THEN reverse(filteredBookings)
                ELSE filteredBookings
      total == Len(sorted)
      totalPages == ceilDiv(total, limit)
      startIndex == (page - 1) * limit
      endIndex == startIndex + limit
  IN [bookings |-> slice(sorted, startIndex, endIndex),
      pagination |-> [page |-> page, limit |-> limit, total |-> total,
                      totalPages |-> totalPages,
                      hasNext |-> page < totalPages,
                      hasPrev |-> page > 1]]

\* the response body for a query over the parsed rows
listing(v, allBookings, q, t) ==
  listBookings(filterBookings(v, allBookings, q, t), q.page, q.limit, q.sortOrder)

\* req.query with every parameter left out: the defaults
NoQuery ==
  [page |-> 1, limit |-> 50, sortOrder |-> "newest",
   search |-> <<>>, branch |-> <<>>, status |-> <<>>,
   createdDateRange |-> "", createdStartDate |-> Null, createdEndDate |-> Null,
   appointmentDateRange |-> "", appointmentStartDate |-> Null,
   appointmentEndDate |-> Null,
   dateRange |-> "", startDate |-> Null, endDate |-> Null]

\* queries of the listing while bookings are created and updated
ListQueries == { NoQuery }

GetOldBookings(q) ==
  /\ LET hit == cacheGet(cache, now)
     IN IF hit.present
        THEN /\ res' = [op |-> "getOldBookings", code |-> 200, query |-> q,
                        body |-> listing(variant, hit.val, q, now)]
             /\ cache' = hit
        ELSE IF Len(db) = 0
        THEN /\ res' = [op |-> "getOldBookings", code |-> 200, query |-> q,
                        body |-> [bookings |-> <<>>,
                                  pagination |-> [page |-> 1, limit |-> q.limit,
                                                  total |-> 0, totalPages |-> 0]]]
             /\ cache' = NoEntry
        ELSE /\ res' = [op |-> "getOldBookings", code |-> 200, query |-> q,
                        body |-> listing(variant, parseRows(db), q, now)]
             /\ cache' = cacheSet(parseRows(db), now)
  /\ UNCHANGED <<variant, now, db, intake, nextId>>
  /\ UNCHANGED <<users, inflight>>

(***************************************************************************)
(* The wall clock.                                                         *)
(***************************************************************************)
\* time passes between two requests: one cache lifetime
Tick ==
  /\ now < MaxTicks * StdTTL
  /\ now' = now + StdTTL
  /\ UNCHANGED <<variant, db, intake, cache, nextId, res>>
  /\ UNCHANGED <<users, inflight>>

(***************************************************************************)
(* The controller as a state machine: requests are served one at a time.   *)
(* Spec, SpecInstant and SpecLookup take every read of the store to        *)
(* succeed; SpecOutage lets the read of the duplicate check fail.          *)
(***************************************************************************)
Init ==
  /\ variant \in Variants
  /\ now = 0
  /\ db = <<>>
  /\ intake = <<>>
  /\ cache = NoEntry
  /\ nextId = 1
  /\ res = [op |-> "none"]
  /\ users = <<>>
  /\ inflight = {}

Next ==
  \/ \E b \in CreateBodies : CreateBooking(b, FALSE)
  \/ \E id \in NumberRowIds, role \in Roles :
       \E b \in UpdateBodies(db, rowNumberOf(id)) : UpdateBooking(id, role, b)
  \/ \E q \in ListQueries : GetOldBookings(q)
  \/ Tick

Spec == Init /\ [][Next]_vars

\* the same controller while the wall clock stands still
NextInstant ==
  \/ \E b \in CreateBodies : CreateBooking(b, FALSE)
  \/ \E id \in NumberRowIds, role \in Roles :
       \E b \in UpdateBodies(db, rowNumberOf(id)) : UpdateBooking(id, role, b)
  \/ \E q \in ListQueries : GetOldBookings(q)

SpecInstant == Init /\ [][NextInstant]_vars

\* createBooking while a read of the store may fail, and the listing
NextOutage ==
  \/ \E b \in CreateBodies, readFails \in BOOLEAN : CreateBooking(b, readFails)
  \/ \E q \in ListQueries : GetOldBookings(q)

SpecOutage == Init /\ [][NextOutage]_vars

\* the same, with the lookup of one booking and with row-number texts that
\* are no numbers
NextLookup ==
  \/ \E b \in CreateBodies : CreateBooking(b, FALSE)
  \/ \E id \in RowIds, role \in Roles :
       \E b \in UpdateBodies(db, rowNumberOf(id)) : UpdateBooking(id, role, b)
  \/ \E id \in BookingIds : GetBookingById(id)
  \/ \E q \in ListQueries : GetOldBookings(q)

SpecLookup == Init /\ [][NextLookup]_vars

(***************************************************************************)
(* checkPromoHunter on drawn inputs: every history of at most MaxHist rows *)
(* over HistoryRows, every candidate of Candidates, every variant.         *)
(***************************************************************************)
nCy == <<"C","y">>

nDi == <<"D","i">>

nEd == <<"E","d">>

eDi == <<"d","i","@","x">>

eEd == <<"e","d","@","x">>

\* a DB row with the given identity columns and nothing else of interest
historyRow(first, last, email, phone, social, compFirst, compLast, branch) ==
  [timestamp |-> 0, branch |-> branch, status |-> sScheduled, date |-> 600,
   firstName |-> first, lastName |-> last, totalPrice |-> <<"1","0","0">>,
   phone |-> phone,
   socialMedia |-> social, email |-> email, agent |-> agKim,
   companionFirstName |-> compFirst, companionLastName |-> compLast,
   promoHunterStatus |-> sScheduled, matchReason |-> <<>>, matchedSource |-> <<>>,
   matchedRow |-> <<>>, recordId |-> 0, dashStatus |-> sScheduled,
   cancellationTime |-> EmptyCell]

HistoryRows ==
  { \* the name of An Lee in another case and with spaces around it
    historyRow(<<" ","A","N">>, <<"L","E","E"," ">>, eBo, pBo, <<>>, <<>>, <<>>, bFeliz),
    \* the email of An Lee in upper case
    historyRow(nBo, nLee, <<"A","N","@","X">>, pBo, <<>>, <<>>, <<>>, bPop),
    \* the phone of An Lee with a separator
    historyRow(nBo, nLee, eBo, <<"1","-","1">>, <<>>, <<>>, <<>>, bFeliz),
    \* the social handle of An Lee in upper case
    historyRow(nBo, nLee, eBo, pBo, <<"I","G">>, <<>>, <<>>, bFeliz),
    \* Cy Lee, who brought An Lee as companion
    historyRow(nCy, nLee, <<>>, <<"(",")">>, <<>>, nAn, nLee, bPop),
    \* a row without identity: empty cells and a phone without digits
    historyRow(<<>>, <<>>, <<>>, <<"-">>, <<>>, <<>>, <<>>, bFeliz),
    \* Di Lee, who shares nothing with any candidate
    historyRow(nDi, nLee, eDi, <<"3","3">>, <<>>, <<>>, <<>>, bFeliz) }

candidate(first, last, email, phone, social, compFirst, compLast) ==
  [firstName |-> first, lastName |-> last, email |-> email, phone |-> phone,
   socialMedia |-> social, companionFirstName |-> compFirst,
   companionLastName |-> compLast]

Candidates ==
  { candidate(nAn, nLee, eAn, pAn, <<"i","g">>, Undefined, Undefined),
    candidate(nAn, nLee, eEd, <<"4","4">>, <<>>, <<>>, <<>>),
    candidate(nEd, nLee, eAn, <<"4","4">>, <<>>, <<>>, <<>>),
    candidate(nEd, nLee, eEd, <<"4","4">>, <<>>, nCy, nLee),
    candidate(nEd, nLee, eEd, <<"4","4">>, <<>>, nAn, nLee),
    candidate(nEd, nLee, eEd, <<"-">>, <<>>, nAn, <<>>) }

RECURSIVE SeqsUpTo(_, _)
SeqsUpTo(S, n) ==
  IF n = 0 THEN {<<>>}
  ELSE LET shorter == SeqsUpTo(S, n - 1)
       IN shorter \cup { Append(h, x) : h \in shorter, x \in S }

InitMatch ==
  /\ variant \in Variants
  /\ now = 0
  /\ db \in SeqsUpTo(HistoryRows, MaxHist)
  /\ intake = <<>>
  /\ cache = NoEntry
  /\ nextId = 1
  /\ res = [op |-> "none"]
  /\ users = <<>>
  /\ inflight = {}

\* one call of the matcher on the stored history
CheckPromoHunter(c) ==
  /\ res' = [op |-> "checkPromoHunter", candidate |-> c,
             result |-> checkPromoHunter(variant, c, db)]
  /\ UNCHANGED <<variant, now, db, intake, cache, nextId>>
  /\ UNCHANGED <<users, inflight>>

NextMatch == \E c \in Candidates : CheckPromoHunter(c)

SpecMatch == InitMatch /\ [][NextMatch]_vars

(***************************************************************************)
(* Properties of checkPromoHunter (checked under SpecMatch).               *)
(***************************************************************************)
IsCheck == res.op = "checkPromoHunter"

\* two normalised texts are equal and neither is empty
SameText(a, b) == a # <<>> /\ b # <<>> /\ a = b

\* the customer-field predicates and the companion predicate, as relations
\* between a candidate and a history row
SharesName(c, row) == SameText(candFullName(c), existingFullName(row))

SharesEmail(c, row) == SameText(candEmail(c), existingEmail(row))

SharesPhone(c, row) == SameText(candPhone(c), existingPhone(row))

SharesSocial(c, row) == SameText(candSocial(c), existingSocialMedia(row))

SharesCompanion(c, row) ==
  \/ SameText(candCompanionFullName(c), existingCompanionFullName(row))
  \/ SameText(candCompanionFullName(c), existingFullName(row))

SharesAny(c, row) ==
  \/ SharesName(c, row)
  \/ SharesEmail(c, row)
  \/ SharesPhone(c, row)
  \/ SharesSocial(c, row)
  \/ SharesCompanion(c, row)

PriorityReason(v, c, row) ==
  CASE SharesName(c, row) -> "Customer Name Match"
    [] ~SharesName(c, row) /\ SharesEmail(c, row) -> "Email Match"
    [] ~SharesName(c, row) /\ ~SharesEmail(c, row) /\ SharesPhone(c, row) -> "Phone Match"
    [] /\ ~SharesName(c, row) /\ ~SharesEmail(c, row) /\ ~SharesPhone(c, row)
       /\ v = "current" /\ SharesSocial(c, row) -> "Social Media Match"
    [] OTHER ->
         IF SameText(candCompanionFullName(c), existingCompanionFullName(row))
         THEN "Previously Companion"
         ELSE "Companion Match (was customer)"

RowMatches(v, c, row) ==
  \/ SharesName(c, row) \/ SharesEmail(c, row) \/ SharesPhone(c, row)
  \/ (v = "current" /\ SharesSocial(c, row))
  \/ SharesCompanion(c, row)

\* the data-row indices of the matching rows, and the first of them
MatchingRows(v, c) == { i \in 1..Len(db) : RowMatches(v, c, db[i]) }

FirstMatching(v, c) ==
  CHOOSE i \in MatchingRows(v, c) : \A j \in MatchingRows(v, c) : i <= j

\* C4: the result describes only the first matching row in scan
\* order, with the highest-priority reason true for that row.
C4_OnlyFirstMatchReported ==
  (IsCheck /\ res.result.status = sPromoHunter) =>
    LET c == res.candidate
        r == res.result
        f == FirstMatching(variant, c)
    IN /\ r.matchReason = <<PriorityReason(variant, c, db[f])>>
       /\ r.matchedRow = <<f + 1>>
       /\ Len(r.matchedSource) = 1

\* the companion cross-match as the claim states it
ClaimedCompanionMatch(c, row) ==
  \/ SameText(candCompanionFullName(c), existingFullName(row))
  \/ SameText(candFullName(c), existingCompanionFullName(row))

\* C5: when no row shares a customer field with the candidate, the matcher
\* answers 'Promo hunter' exactly when for some row the candidate's
\* companion name equals the row's customer name or the candidate's own
\* name equals the row's companion name.
C5_CompanionCrossMatch ==
  ( /\ IsCheck
    /\ \A i \in 1..Len(db) :
         /\ ~SharesName(res.candidate, db[i]) /\ ~SharesEmail(res.candidate, db[i])
         /\ ~SharesPhone(res.candidate, db[i]) /\ ~SharesSocial(res.candidate, db[i]) )
  => ( (res.result.status = sPromoHunter)
       <=> (\E i \in 1..Len(db) : ClaimedCompanionMatch(res.candidate, db[i])) )

(***************************************************************************)
(* Properties of the write handlers and the cached listing (checked under  *)
(* Spec, and under SpecInstant where the clock plays no part).             *)
(***************************************************************************)
\* C1: a getOldBookings request answers from the store as it is after the
\* last successful write, never from a snapshot cached before that write:
\* its body is the listing of the rows the store holds when it answers.
C1_ListingReflectsStore ==
  (res.op = "getOldBookings" /\ Len(db) > 0) =>
    res.body = listing(variant, parseRows(db), res.query, now)

\* C2: when the duplicate check of createBooking found a match, the Intake
\* row's Booking Status and the DB row's Booking Status (column 2) are both
\* 'Promo hunter', whatever status the request carried.
C2_BothCopiesPromoHunter ==
  (res.op = "createBooking" /\ res.promoHunterStatus = sPromoHunter) =>
    /\ intake[Len(intake)].status = sPromoHunter
    /\ db[Len(db)].status = sPromoHunter

\* the duplicate-match result columns (30-33) and the record id (34)
MatchColumns(row) ==
  <<row.promoHunterStatus, row.matchReason, row.matchedSource, row.matchedRow,
    row.recordId>>

\* C6: no step changes columns 30-34 of an existing DB row: through every
\* sequence of updateBooking calls they keep the values createBooking wrote.
C6_MatchColumnsFrozen ==
  [][\A i \in 1..Len(db) :
       /\ i <= Len(db')
       /\ MatchColumns(db'[i]) = MatchColumns(db[i])]_vars

\* C6 witness: a row flagged 'Promo hunter' by createBooking was rewritten
\* by a successful updateBooking (rows are created 'Scheduled' or 'Arrived',
\* so a 'Cancelled' row is an updated one)
C6_Witness ==
  /\ res.op = "updateBooking" /\ res.code = 200
  /\ \E i \in 1..Len(db) :
       /\ db[i].status = sCancelled
       /\ db[i].promoHunterStatus = sPromoHunter
       /\ db[i].matchedRow = <<2>>
       /\ db[i].recordId = i

\* C7: once a row's cancellationTime (column 43) is non-empty no step
\* changes or clears it.
C7_CancellationTimeSetOnce ==
  [][\A i \in 1..Len(db) :
       db[i].cancellationTime # EmptyCell =>
         /\ i <= Len(db')
         /\ db'[i].cancellationTime = db[i].cancellationTime]_vars

\* C8: every DB row with a cancelled-class status (one that contains
\* 'cancel' in any case) has a non-empty cancellationTime.  Rows are created
\* with a status that is not cancelled-class, so a cancelled-class row is
\* one that updateBooking wrote.
C8_CancelledHasCancellationTime ==
  \A i \in 1..Len(db) :
    IsCancelledClass(db[i].status) => db[i].cancellationTime # EmptyCell

(***************************************************************************)
(* getDailyReports                                                         *)
(***************************************************************************)
\* str.replace('₱', ''): the first peso sign removed
RECURSIVE removeFirst(_, _)
removeFirst(s, ch) ==
  IF s = <<>> THEN <<>>
  ELSE IF Head(s) = ch THEN Tail(s)
  ELSE <<Head(s)>> \o removeFirst(Tail(s), ch)

\* parsePrice: 0 for an empty cell; else the first peso sign and every comma
\* removed, then parseFloat, and 0 when that is no number
parsePrice(priceValue) ==
  IF ~Truthy(priceValue) THEN 0
  ELSE LET cleaned == SelectSeq(removeFirst(priceValue, "₱"), LAMBDA ch : ch # ",")
           parsed == parseFloat(cleaned)
       IN IF parsed.isNaN THEN 0 ELSE parsed.value

\* the local calendar day of a timestamp, null when there is none
getDateFromTimestamp(isoString) ==
  IF isoString = EmptyCell \/ isoString = BadText THEN Null ELSE DayOf(isoString)

\* the booking date with its time of day stripped
parseBookingDate(dateStr) ==
  IF dateStr = EmptyCell THEN Null
  ELSE IF parseDateString(dateStr) = Null THEN Null
  ELSE DayOf(parseDateString(dateStr))

isToday(date, today) == date # Null /\ date = today

isTomorrow(date, today) == date # Null /\ date = today + 1

isNext7DaysFromToday(date, today) == date # Null /\ date >= today /\ date <= today + 7

isNext7Days(date, today) == date # Null /\ date > today /\ date <= today + 7

isInNext7Days(date, today) == date # Null /\ date >= today /\ date <= today + 7

isCancelledToday(cancellationTimeStr, today) ==
  IF cancellationTimeStr = EmptyCell THEN FALSE
  ELSE isToday(getDateFromTimestamp(cancellationTimeStr), today)

\* the built-in branches list
branches ==
  { <<"S","T","A"," ","L","U","C","I","A">>,
    <<"F","E","L","I","Z">>,
    <<"E","S","T","A","N","C","I","A">>,
    <<"S","p","a">>,
    <<"C","l","i","n","i","c">>,
    <<"L","a","b">>,
    <<"D","e","r","m","a","t","o","l","o","g","y">>,
    <<"W","e","l","l","n","e","s","s">>,
    <<"M","e","d"," ","S","p","a">>,
    <<"A","e","s","t","h","e","t","i","c">>,
    <<"H","y","d","r","o">>,
    <<"H","a","i","r"," ","C","a","r","e">>,
    <<"A","n","t","i","-","A","g","i","n","g">>,
    <<"M","o","t","h","e","r"," ","C","a","r","e">>,
    <<"O","t","h","e","r">>,
    <<"A","I"," ","S","K","I","N">>,
    <<"C","E","N","T","R","I","S">>,
    <<"D","N","A"," ","M","A","N","I","L","A">>,
    <<"G","E","N","E","V","A">>,
    <<"G","L","O","R","I","E","T","T","A">>,
    <<"H","E","R","A">>,
    <<"L","I","O","N","E","S","S","E">>,
    <<"L","U","M","I","A">>,
    <<"P","A","R","I","S">>,
    <<"S","M"," ","N","O","R","T","H">>,
    <<"V","E","N","I","C","E">> }

zeroByBranch == [b \in branches |-> [count |-> 0, revenue |-> 0]]

emptyByBranch == [b \in {} |-> [count |-> 0, revenue |-> 0]]

\* the report object before any row is processed
initialReports(byBranch) ==
  [otsBookings |-> [total |-> 0, revenue |-> 0, count |-> 0, byBranch |-> byBranch],
   overallBookings |-> [total |-> 0, revenue |-> 0, count |-> 0, byBranch |-> byBranch],
   bookedTomorrow |-> [byBranch |-> byBranch],
   bookedNext7Days |-> [byBranch |-> byBranch],
   cancellations |-> [total |-> 0, revenue |-> 0, count |-> 0, byBranch |-> byBranch],
   overallBookingsTomorrow |-> [total |-> 0, revenue |-> 0, count |-> 0]]

\* byBranch[branch].count++ and .revenue += price, when the map has the branch
bumpBranch(byBranch, branch, price) ==
  IF branch \in DOMAIN byBranch
  THEN [byBranch EXCEPT ![branch] = [count |-> @.count + 1, revenue |-> @.revenue + price]]
  ELSE byBranch

\* a section with count, revenue and total, and its per-branch breakdown
bumpSection(section, branch, price) ==
  [total |-> section.total + 1,
   revenue |-> section.revenue + price,
   count |-> section.count + 1,
   byBranch |-> bumpBranch(section.byBranch, branch, price)]

\* a section that has only the per-branch breakdown
bumpBranchOnly(section, branch, price) ==
  [byBranch |-> bumpBranch(section.byBranch, branch, price)]

\* the section without a breakdown
bumpSummary(section, price) ==
  [total |-> section.total + 1,
   revenue |-> section.revenue + price,
   count |-> section.count + 1]

\* the body of the loop over the data rows
processRow(reports, row, today) ==
  LET status == toLowerCase(OrElse(row.status, <<>>))
      cancelled == includes(status, sCancelLower)
      price == parsePrice(row.totalPrice)
      bookingDate == parseBookingDate(row.date)
      createdDate == getDateFromTimestamp(row.timestamp)
      createdToday == createdDate # Null /\ createdDate = today
  IN IF bookingDate = Null THEN reports
     ELSE [otsBookings |->
             IF createdToday /\ isToday(bookingDate, today) /\ ~cancelled
             THEN bumpSection(reports.otsBookings, row.branch, price)
             ELSE reports.otsBookings,
           overallBookings |->
             IF createdToday /\ isNext7Days(bookingDate, today) /\ ~cancelled
             THEN bumpSection(reports.overallBookings, row.branch, price)
             ELSE reports.overallBookings,
           bookedTomorrow |->
             IF createdToday /\ isTomorrow(bookingDate, today) /\ ~cancelled
             THEN bumpBranchOnly(reports.bookedTomorrow, row.branch, price)
             ELSE reports.bookedTomorrow,
           bookedNext7Days |->
             IF isInNext7Days(bookingDate, today) /\ ~cancelled
             THEN bumpBranchOnly(reports.bookedNext7Days, row.branch, price)
             ELSE reports.bookedNext7Days,
           cancellations |->
             IF createdToday /\ cancelled /\ isCancelledToday(row.cancellationTime, today)
             THEN bumpSection(reports.cancellations, row.branch, price)
             ELSE reports.cancellations,
           overallBookingsTomorrow |->
             IF isTomorrow(bookingDate, today) /\ ~cancelled
             THEN bumpSummary(reports.overallBookingsTomorrow, price)
             ELSE reports.overallBookingsTomorrow]

RECURSIVE reportLoop(_, _, _, _)
reportLoop(rows, i, today, reports) ==
  IF i > Len(rows) THEN reports
  ELSE reportLoop(rows, i + 1, today, processRow(reports, rows[i], today))

\* the reports object of the response
dailyReports(rows, t) ==
  IF Len(rows) = 0 THEN initialReports(emptyByBranch)
  ELSE reportLoop(rows, 1, DayOf(t), initialReports(zeroByBranch))

GetDailyReports ==
  /\ res' = [op |-> "getDailyReports", code |-> 200, reports |-> dailyReports(db, now)]
  /\ UNCHANGED <<variant, now, db, intake, cache, nextId>>
  /\ UNCHANGED <<users, inflight>>

(***************************************************************************)
(* getDailyReports on drawn inputs: every DB content of at most            *)
(* MaxReportRows rows over ReportRows, on the request day ReportDay.       *)
(***************************************************************************)
ReportDay == 10

\* the request arrives at 13:00
ReportNow == ReportDay * MinutesPerDay + 780

\* creation timestamps: today 08:00, yesterday 23:00
ReportTimestamps == {ReportDay * MinutesPerDay + 480, (ReportDay - 1) * MinutesPerDay + 1380}

\* appointment dates at 10:00 today, tomorrow, in 7 days and in 8 days, and an
\* empty date cell
ReportDates ==
  {(ReportDay + k) * MinutesPerDay + 600 : k \in {0, 1, 7, 8}} \cup {EmptyCell}

\* status and cancellation time: not cancelled, cancelled today at 12:00,
\* cancelled yesterday at 12:00
ReportStates ==
  { <<sScheduled, EmptyCell>>,
    <<sCancelled, ReportDay * MinutesPerDay + 720>>,
    <<sCancelled, (ReportDay - 1) * MinutesPerDay + 720>> }

\* a listed branch and a branch the built-in list does not have
ReportBranches == {bFeliz, bPop}

reportRow(timestamp, branch, date, st) ==
  [timestamp |-> timestamp, branch |-> branch, status |-> st[1], date |-> date,
   firstName |-> nAn, lastName |-> nLee, totalPrice |-> <<"1",",","0","0","0">>,
   phone |-> pAn, socialMedia |-> <<>>, email |-> eAn, agent |-> agKim,
   companionFirstName |-> <<>>, companionLastName |-> <<>>,
   promoHunterStatus |-> sScheduled, matchReason |-> <<>>, matchedSource |-> <<>>,
   matchedRow |-> <<>>, recordId |-> 0, dashStatus |-> st[1],
   cancellationTime |-> st[2]]

ReportRows ==
  { reportRow(ts, br, d, st) :
      ts \in ReportTimestamps, br \in ReportBranches, d \in ReportDates,
      st \in ReportStates }

\* the report handler has the same text in the current and the middle variant
InitReport ==
  /\ variant \in {"current", "middle"}
  /\ now = ReportNow
  /\ db \in SeqsUpTo(ReportRows, MaxReportRows)
  /\ intake = <<>>
  /\ cache = NoEntry
  /\ nextId = 1
  /\ res = [op |-> "none"]
  /\ users = <<>>
  /\ inflight = {}

NextReport == GetDailyReports

SpecReport == InitReport /\ [][NextReport]_vars

(***************************************************************************)
(* Properties of getDailyReports (checked under SpecReport).               *)
(***************************************************************************)
IsReport == res.op = "getDailyReports"

CreatedToday(row) ==
  row.timestamp \notin {EmptyCell, BadText} /\ DayOf(row.timestamp) = DayOf(now)

\* the booking is scheduled on a day today + k with k in K
ScheduledIn(row, K) ==
  row.date \notin {EmptyCell, BadText} /\ (DayOf(row.date) - DayOf(now)) \in K

CancelledOn(row, day) ==
  row.cancellationTime \notin {EmptyCell, BadText} /\ DayOf(row.cancellationTime) = day

\* the number of data rows that satisfy a predicate
HowMany(P(_)) == Cardinality({ i \in 1..Len(db) : P(db[i]) })

RECURSIVE SumCounts(_, _)
SumCounts(byBranch, S) ==
  IF S = {} THEN 0
  ELSE LET b == CHOOSE x \in S : TRUE
       IN byBranch[b].count + SumCounts(byBranch, S \ {b})

\* the bookings a per-branch section counts
BranchTotal(section) == SumCounts(section.byBranch, DOMAIN section.byBranch)

\* C9: the five booking sections count exactly the bookings of their
\* predicate: OTS created today, scheduled today, not cancelled; Overall
\* created today, scheduled in days 1..7, not cancelled; Booked-tomorrow
\* created today, scheduled tomorrow, not cancelled; Booked-next-7-days
\* scheduled in days 0..7, not cancelled; Tomorrow-summary scheduled
\* tomorrow, not cancelled.
C9_SectionsCountTheirPredicate ==
  IsReport =>
    LET r == res.reports
        Ots(row) == CreatedToday(row) /\ ScheduledIn(row, {0}) /\ ~IsCancelledClass(row.status)
        Overall(row) == CreatedToday(row) /\ ScheduledIn(row, 1..7) /\ ~IsCancelledClass(row.status)
        Tomorrow(row) == CreatedToday(row) /\ ScheduledIn(row, {1}) /\ ~IsCancelledClass(row.status)
        Next7(row) == ScheduledIn(row, 0..7) /\ ~IsCancelledClass(row.status)
        Summary(row) == ScheduledIn(row, {1}) /\ ~IsCancelledClass(row.status)
    IN /\ r.otsBookings.count = HowMany(Ots)
       /\ r.overallBookings.count = HowMany(Overall)
       /\ BranchTotal(r.bookedTomorrow) = HowMany(Tomorrow)
       /\ BranchTotal(r.bookedNext7Days) = HowMany(Next7)
       /\ r.overallBookingsTomorrow.count = HowMany(Summary)

\* C10: the Cancellations section counts exactly the bookings created today
\* with a cancelled-class status and a cancellation timestamp of today,
\* whatever their appointment date.
C10_CancellationsIgnoreAppointmentDate ==
  IsReport =>
    LET Cancelled(row) ==
          /\ CreatedToday(row)
          /\ IsCancelledClass(row.status)
          /\ CancelledOn(row, DayOf(now))
    IN res.reports.cancellations.count = HowMany(Cancelled)

(***************************************************************************)
(* The day predicates of getDailyReports on drawn inputs: a request at any *)
(* time of today and a booking date at any time of a day from yesterday to *)
(* today + MaxDayOffset.                                                   *)
(***************************************************************************)
\* times of day: midnight, 10:00, 13:00 and the last minute
TimesOfDay == {0, 600, 780, 1439}

InitDays ==
  /\ variant \in {"current", "middle"}
  /\ now \in { ReportDay * MinutesPerDay + t : t \in TimesOfDay }
  /\ db \in { <<reportRow(ReportDay * MinutesPerDay, bFeliz,
                          (ReportDay + k) * MinutesPerDay + t,
                          <<sScheduled, EmptyCell>>)>> :
              k \in (-1)..MaxDayOffset, t \in TimesOfDay }
  /\ intake = <<>>
  /\ cache = NoEntry
  /\ nextId = 1
  /\ res = [op |-> "none"]
  /\ users = <<>>
  /\ inflight = {}

\* the helpers applied to the booking date of the stored row, as the loop of
\* getDailyReports applies them
ClassifyDay ==
  /\ LET today == DayOf(now)
         bookingDate == parseBookingDate(db[1].date)
     IN res' = [op |-> "classifyDay",
                isToday |-> isToday(bookingDate, today),
                isTomorrow |-> isTomorrow(bookingDate, today),
                isNext7Days |-> isNext7Days(bookingDate, today),
                isInNext7Days |-> isInNext7Days(bookingDate, today)]
  /\ UNCHANGED <<variant, now, db, intake, cache, nextId>>
  /\ UNCHANGED <<users, inflight>>

NextDays == ClassifyDay

SpecDays == InitDays /\ [][NextDays]_vars

\* the number of calendar days from the request day to the booking day
DaysAhead == (db[1].date \div MinutesPerDay) - (now \div MinutesPerDay)

\* C11: for a booking on day today + k, whatever the times of day, isToday
\* holds iff k = 0, isTomorrow iff k = 1, the inclusive next-7-days test iff
\* 0 <= k <= 7 and the strict next-7-days test iff 1 <= k <= 7.
C11_DayPredicates ==
  res.op = "classifyDay" =>
    /\ res.isToday <=> DaysAhead = 0
    /\ res.isTomorrow <=> DaysAhead = 1
    /\ res.isInNext7Days <=> (0 <= DaysAhead /\ DaysAhead <= 7)
    /\ res.isNext7Days <=> (1 <= DaysAhead /\ DaysAhead <= 7)

\* C11 witness: day 0 separates the two next-7-days tests
C11_Witness ==
  /\ res.op = "classifyDay"
  /\ DaysAhead = 0
  /\ db[1].date > now
  /\ res.isInNext7Days /\ ~res.isNext7Days

(***************************************************************************)
(* The two price parsers on drawn inputs: every raw cell of at most        *)
(* MaxPriceLen characters over PriceChars, and the missing cell.           *)
(***************************************************************************)
PriceChars == {"0", "1", ".", ",", "₱", "-", "$"}

PriceCells == SeqsUpTo(PriceChars, MaxPriceLen) \cup {Undefined}

InitPrice ==
  /\ variant \in {"current", "middle"}
  /\ now = 0
  /\ db \in { <<[historyRow(nAn, nLee, eAn, pAn, <<>>, <<>>, <<>>, bFeliz)
                   EXCEPT !.totalPrice = cell]>> : cell \in PriceCells }
  /\ intake = <<>>
  /\ cache = NoEntry
  /\ nextId = 1
  /\ res = [op |-> "none"]
  /\ users = <<>>
  /\ inflight = {}

\* column 12 of the stored row read by parsePrice (reports, sales) and by
\* the inline strip (listing, analytics)
ParsePrices ==
  /\ res' = [op |-> "parsePrice",
             parsePrice |-> parsePrice(db[1].totalPrice),
             inline |-> stripPrice(db[1].totalPrice)]
  /\ UNCHANGED <<variant, now, db, intake, cache, nextId>>
  /\ UNCHANGED <<users, inflight>>

NextPrice == ParsePrices

SpecPrice == InitPrice /\ [][NextPrice]_vars

\* the value of a cell with every character but digits and the point
\* removed; 0 for a missing cell and when nothing parsable remains
StrippedValue(cell) ==
  IF cell = Undefined THEN 0
  ELSE LET kept == SelectSeq(cell, LAMBDA ch : ch \in Digits \cup {"."})
           parsed == parseFloat(kept)
       IN IF parsed.isNaN THEN 0 ELSE parsed.value

\* C18: both price parsers give, for every raw cell, the non-negative value
\* of the cell with every character other than digits and the decimal point
\* removed, so they agree on every input.
C18_PriceParsersAgree ==
  res.op = "parsePrice" =>
    /\ res.parsePrice >= 0
    /\ res.parsePrice = StrippedValue(db[1].totalPrice)
    /\ res.inline = StrippedValue(db[1].totalPrice)
    /\ res.parsePrice = res.inline

(***************************************************************************)
(* getOldBookings on drawn inputs: every store of at most MaxListRows rows *)
(* over ListRows, every query of FilterQueries, every variant.             *)
(***************************************************************************)
\* created today with an appointment today; created yesterday with an
\* appointment tomorrow; timestamp and date unparsable
ListRows ==
  { reportRow(ReportDay * MinutesPerDay + 480, bFeliz,
              ReportDay * MinutesPerDay + 600, <<sScheduled, EmptyCell>>),
    reportRow((ReportDay - 1) * MinutesPerDay + 480, bPop,
              (ReportDay + 1) * MinutesPerDay + 600, <<sScheduled, EmptyCell>>),
    reportRow(BadText, bPop, BadText, <<sScheduled, EmptyCell>>) }

\* filter parameters: none; created today; appointment today; a custom
\* appointment range of today and tomorrow; one branch.  A query carries the
\* parameter names of every variant, each variant reads its own.
ListFilters ==
  { NoQuery,
    [NoQuery EXCEPT !.createdDateRange = "today"],
    [NoQuery EXCEPT !.appointmentDateRange = "today", !.dateRange = "today"],
    [NoQuery EXCEPT !.appointmentStartDate = ReportDay,
                    !.appointmentEndDate = ReportDay + 1,
                    !.startDate = ReportDay, !.endDate = ReportDay + 1],
    [NoQuery EXCEPT !.branch = bFeliz] }

FilterQueries ==
  { [f EXCEPT !.page = p, !.limit = l, !.sortOrder = o] :
      f \in ListFilters, p \in 1..MaxPage, l \in 1..MaxLimit,
      o \in {"newest", "oldest"} }

InitList ==
  /\ variant \in Variants
  /\ now = ReportNow
  /\ db \in SeqsUpTo(ListRows, MaxListRows)
  /\ intake = <<>>
  /\ cache = NoEntry
  /\ nextId = 1
  /\ res = [op |-> "none"]
  /\ users = <<>>
  /\ inflight = {}

NextList == \E q \in FilterQueries : GetOldBookings(q)

SpecList == InitList /\ [][NextList]_vars

\* the listing answered from a store that has rows
IsListing == res.op = "getOldBookings" /\ Len(db) > 0

\* the filtered bookings in the order of the query
FilteredSorted(q) ==
  LET f == filterBookings(variant, parseRows(db), q, now)
  IN IF q.sortOrder = "newest" THEN reverse(f) ELSE f

\* the bookings of pages 1..n of the query, one page after the other
RECURSIVE PagesUpTo(_, _)
PagesUpTo(q, n) ==
  IF n = 0 THEN <<>>
  ELSE PagesUpTo(q, n - 1)
       \o listing(variant, parseRows(db), [q EXCEPT !.page = n], now).bookings

DenotesRow(id, rows) ==
  /\ ~parseInt(id).isNaN
  /\ parseInt(id).value >= 2
  /\ parseInt(id).value <= Len(rows) + 1

\* some row of either sheet has the id as its record_id
MatchesRecordId(id, newBookings, oldBookings) ==
  /\ id.kind = "recordId"
  /\ \/ \E i \in 1..Len(newBookings) : newBookings[i].recordId = id.recordId
     \/ \E i \in 1..Len(oldBookings) : oldBookings[i].recordId = id.recordId

\* C19: updateBooking with a row id that denotes no existing data row (below
\* 2, above the number of rows, or not a number) answers not-found and leaves
\* the store and the cache unchanged; getBookingById with an id that matches
\* no record_id in either sheet answers not-found.
C19_UnknownIdNotFound ==
  [][ /\ \A id \in RowIds, role \in Roles :
           \A b \in UpdateBodies(db, rowNumberOf(id)) :
             (~DenotesRow(id, db) /\ UpdateBooking(id, role, b))
               => (res'.code = 404 /\ db' = db /\ cache' = cache)
      /\ \A id \in BookingIds :
           (~MatchesRecordId(id, intake, db) /\ GetBookingById(id))
             => res'.code = 404 ]_vars

(***************************************************************************)
(* createBooking when the duplicate check cannot read the store.           *)
(***************************************************************************)
\* C20: when reading the DB fails during the duplicate check of createBooking
\* the caller gets a failure response and no row is appended; a created
\* booking never has undefined match fields.
C20_FailedCheckCreatesNothing ==
  [][ /\ \A b \in CreateBodies :
           CreateBooking(b, TRUE)
             => (res'.code # 201 /\ db' = db /\ intake' = intake)
      /\ (res'.op = "createBooking" /\ res'.code = 201)
           => (/\ res'.promoHunterStatus # Undefined
               /\ db'[Len(db')].promoHunterStatus # Undefined
               /\ db'[Len(db')].matchReason # Undefined) ]_vars

(***************************************************************************)
(* Bookings whose date cells do not parse, in date-scoped listings.        *)
(***************************************************************************)
\* the query asks for a window of appointment dates
AppointmentScoped(v, q) ==
  IF v = "current" THEN appointmentBounds(q, now).apply
  ELSE \/ q.startDate # Null /\ q.endDate # Null
       \/ q.dateRange # "" /\ q.dateRange # "all"

\* the query asks for a window of creation dates
CreatedScoped(v, q) == v = "current" /\ createdBounds(q, now).apply

\* C17: a booking whose date or timestamp cell is empty or unparsable is
\* left out of every date-scoped result (here: the listing's appointment-date
\* and created-date filters), and the request still succeeds.
C17_UnparsableDatesExcluded ==
  IsListing =>
    /\ res.code = 200
    /\ \A i \in 1..Len(res.body.bookings) :
         LET booking == res.body.bookings[i]
         IN /\ AppointmentScoped(variant, res.query)
                 => parseDateString(booking.date) # Null
            /\ CreatedScoped(variant, res.query)
                 => parseDateString(booking.timestamp) # Null

(***************************************************************************)
(* The reports of an empty store.                                          *)
(***************************************************************************)
\* C16: on an empty store (no data row) a report endpoint answers with the
\* field set it uses for a non-empty store where nothing matches, every
\* value zero: getDailyReports carries the same per-branch entries.
C16_EmptyStoreSameShape ==
  (IsReport /\ Len(db) = 0) =>
    /\ DOMAIN res.reports.otsBookings.byBranch = branches
    /\ res.reports = initialReports(zeroByBranch)

(***************************************************************************)
(* getDashboardOverview (dashboard controller).  Numbers with a fraction   *)
(* are fractions num/den until toFixed rounds them.                        *)
(***************************************************************************)
sArrivedBought == <<"A","r","r","i","v","e","d"," ","&"," ","b","o","u","g","h","t">>

\* parseTimestamp: the instant a formatted timestamp names, null for an
\* empty cell and for text no format accepts
parseTimestamp(timestamp) ==
  IF timestamp = EmptyCell \/ timestamp = BadText THEN Null ELSE timestamp

\* intakeRows.slice(1).map(...): the dashboard's view of an Intake row
dashBooking(row) ==
  [timestamp |-> row.timestamp,
   branch |-> OrElse(row.branch, <<>>),
   status |-> OrElse(row.status, <<>>),
   firstName |-> OrElse(row.firstName, <<>>),
   lastName |-> OrElse(row.lastName, <<>>),
   treatment |-> OrElse(row.treatment, <<>>),
   totalPrice |-> stripPrice(row.totalPrice),
   agent |-> OrElse(row.agent, <<>>)]

\* bookings whose timestamp parses into [from, to)
bookingsBetween(allBookings, from, to) ==
  SelectSeq(allBookings,
            LAMBDA b : /\ b.timestamp # EmptyCell
                       /\ parseTimestamp(b.timestamp) # Null
                       /\ parseTimestamp(b.timestamp) >= from
                       /\ parseTimestamp(b.timestamp) < to)

\* reduce((sum, b) => sum + b.totalPrice, 0)
RECURSIVE sumPrices(_)
sumPrices(bookings) ==
  IF bookings = <<>> THEN 0 ELSE Head(bookings).totalPrice + sumPrices(Tail(bookings))

\* the quotient n / d rounded to the nearest integer, a tie away from zero
roundDiv(n, d) ==
  LET magnitude == IF n < 0 THEN 0 - n ELSE n
      q == (2 * magnitude + d) \div (2 * d)
  IN IF n < 0 THEN 0 - q ELSE q

\* the fraction n / d in lowest terms (d > 0)
RECURSIVE gcd(_, _)
gcd(a, b) == IF b = 0 THEN a ELSE gcd(b, a % b)

fraction(n, d) ==
  LET g == gcd(IF n < 0 THEN 0 - n ELSE n, d)
  IN [num |-> n \div g, den |-> d \div g]

\* parseFloat(x.toFixed(1)) in tenths, parseFloat(x.toFixed(2)) in hundredths
toFixed1(x) == roundDiv(x.num * 10, x.den)

toFixed2(x) == roundDiv(x.num * 100, x.den)

\* the percentage change of a KPI, not yet rounded
percentChange(todayValue, yesterdayValue) ==
  IF yesterdayValue > 0
  THEN fraction((todayValue - yesterdayValue) * 100, yesterdayValue)
  ELSE IF todayValue > 0 THEN fraction(100, 1)
  ELSE fraction(0, 1)

\* change >= 0 ? 'up' : 'down', decided on the unrounded change
trendOf(change) == IF change.num >= 0 THEN "up" ELSE "down"

\* one KPI of the response: the rounded change next to the trend
kpi(todayValue, yesterdayValue) ==
  [today |-> todayValue, yesterday |-> yesterdayValue,
   change |-> toFixed1(percentChange(todayValue, yesterdayValue)),
   trend |-> trendOf(percentChange(todayValue, yesterdayValue))]

\* stats[name].bookings++ and .revenue += price, a new entry when absent
addStat(stats, name, price) ==
  IF \E k \in 1..Len(stats) : stats[k].name = name
  THEN [k \in 1..Len(stats) |->
          IF stats[k].name = name
          THEN [stats[k] EXCEPT !.bookings = @ + 1, !.revenue = @ + price]
          ELSE stats[k]]
  ELSE Append(stats, [name |-> name, bookings |-> 1, revenue |-> price])

\* the per-branch, per-agent or per-treatment statistics in insertion order;
\* field names the grouping column, an empty agent or treatment is skipped
RECURSIVE groupStats(_, _, _)
groupStats(bookings, field, skipEmpty) ==
  IF bookings = <<>> THEN <<>>
  ELSE LET b == bookings[Len(bookings)]
           before == groupStats(SubSeq(bookings, 1, Len(bookings) - 1), field, skipEmpty)
       IN IF skipEmpty /\ b[field] = <<>> THEN before
          ELSE addStat(before, b[field], b.totalPrice)

\* Array.prototype.sort((a, b) => b[field] - a[field]): stable, descending
RECURSIVE insertDesc(_, _, _)
insertDesc(sorted, x, field) ==
  IF sorted = <<>> THEN <<x>>
  ELSE IF Head(sorted)[field] >= x[field]
  THEN <<Head(sorted)>> \o insertDesc(Tail(sorted), x, field)
  ELSE <<x>> \o sorted

RECURSIVE sortDesc(_, _)
sortDesc(entries, field) ==
  IF entries = <<>> THEN <<>>
  ELSE insertDesc(sortDesc(SubSeq(entries, 1, Len(entries) - 1), field),
                  entries[Len(entries)], field)

\* the first n entries by bookings
topOf(stats, n) == slice(sortDesc(stats, "bookings"), 0, n)

\* a treatment entry counts bookings and has no revenue
treatmentCounts(stats) ==
  [k \in 1..Len(stats) |-> [name |-> stats[k].name, count |-> stats[k].bookings]]

highValueThreshold == 50000 * Scale

\* the entries of the high-value alert
highValueAlerts(bookings) ==
  [k \in 1..Len(bookings) |->
     [customer |-> joinSpace(bookings[k].firstName, bookings[k].lastName),
      amount |-> bookings[k].totalPrice,
      treatment |-> bookings[k].treatment,
      branch |-> bookings[k].branch]]

\* the entries of the cancelled alert; its reason is the booking-details
\* cell, which the rows of this model do not carry
cancelledAlerts(bookings) ==
  [k \in 1..Len(bookings) |->
     [customer |-> joinSpace(bookings[k].firstName, bookings[k].lastName),
      treatment |-> bookings[k].treatment,
      branch |-> bookings[k].branch]]

statusHas(b, word) == includes(toLowerCase(b.status), word)

countOf(bookings, word) == Len(SelectSeq(bookings, LAMBDA b : statusHas(b, word)))

\* the data of the response for a store with at least one data row
dashboardData(rows, t) ==
  LET allBookings == [i \in 1..Len(rows) |-> dashBooking(rows[i])]
      today == DayOf(t) * MinutesPerDay
      yesterday == today - MinutesPerDay
      tomorrow == today + MinutesPerDay
      todayBookings == bookingsBetween(allBookings, today, tomorrow)
      yesterdayBookings == bookingsBetween(allBookings, yesterday, today)
      todayStats == [bookings |-> Len(todayBookings), revenue |-> sumPrices(todayBookings)]
      yesterdayStats == [bookings |-> Len(yesterdayBookings),
                         revenue |-> sumPrices(yesterdayBookings)]
      avgBookingValue ==
        IF todayStats.bookings > 0
        THEN fraction(todayStats.revenue, todayStats.bookings * Scale)
        ELSE fraction(0, 1)
      yesterdayAvgValue ==
        IF yesterdayStats.bookings > 0
        THEN fraction(yesterdayStats.revenue, yesterdayStats.bookings * Scale)
        ELSE fraction(0, 1)
      completedToday ==
        Len(SelectSeq(todayBookings,
                      LAMBDA b : \/ statusHas(b, <<"c","o","m","p","l","e","t","e","d">>)
                                 \/ statusHas(b, <<"b","o","u","g","h","t">>)))
      conversionRate ==
        IF todayStats.bookings > 0
        THEN fraction(completedToday * 100, todayStats.bookings)
        ELSE fraction(0, 1)
  IN [todayBookings |-> todayBookings,
      kpis |-> [bookings |-> kpi(todayStats.bookings, yesterdayStats.bookings),
                revenue |-> kpi(todayStats.revenue, yesterdayStats.revenue),
                avgBookingValue |-> [today |-> toFixed2(avgBookingValue),
                                     yesterday |-> toFixed2(yesterdayAvgValue)],
                conversionRate |-> toFixed1(conversionRate)],
      topPerformers |->
        [branches |-> topOf(groupStats(todayBookings, "branch", FALSE), 3),
         agents |-> topOf(groupStats(todayBookings, "agent", TRUE), 3),
         treatments |-> treatmentCounts(topOf(groupStats(todayBookings, "treatment", TRUE), 5))],
      alerts |->
        [highValue |-> highValueAlerts(SelectSeq(todayBookings,
                                 LAMBDA b : b.totalPrice >= highValueThreshold)),
         cancelled |-> cancelledAlerts(SelectSeq(todayBookings,
                                 LAMBDA b : \/ statusHas(b, sCancelledLower)
                                            \/ statusHas(b, <<"r","e","f","u","n","d">>))),
         promoHunters |-> countOf(todayBookings, toLowerCase(sPromoHunter)),
         newCustomers |-> countOf(todayBookings, <<"n","e","w">>)],
      comparison |-> [today |-> todayStats, yesterday |-> yesterdayStats]]

\* the Intake sheet has no data row: a short answer
emptyDashboard ==
  [todayBookings |-> <<>>,
   comparison |-> [today |-> [bookings |-> 0, revenue |-> 0],
                   yesterday |-> [bookings |-> 0, revenue |-> 0]]]

GetDashboardOverview ==
  /\ res' = [op |-> "getDashboardOverview", code |-> 200,
             data |-> IF Len(intake) = 0 THEN emptyDashboard
                      ELSE dashboardData(intake, now)]
  /\ UNCHANGED <<variant, now, db, intake, cache, nextId>>
  /\ UNCHANGED <<users, inflight>>

(***************************************************************************)
(* getDashboardOverview on drawn inputs: every Intake sheet of at most     *)
(* MaxDashRows rows over DashRows, on the request day ReportDay.           *)
(***************************************************************************)
tFacial == <<"F","a","c","i","a","l">>

\* created today 08:00, yesterday 23:00, or with an empty timestamp cell
DashTimestamps ==
  {ReportDay * MinutesPerDay + 480, (ReportDay - 1) * MinutesPerDay + 1380, EmptyCell}

\* price cells: 9999, 10000 and 50,000 pesos
DashPrices ==
  { <<"9","9","9","9">>, <<"1","0","0","0","0">>, <<"5","0",",","0","0","0">> }

DashStatuses == {sArrivedBought, sCancelled}

\* an Intake row (columns 0, 2-5, 10, 15, 24)
dashRow(timestamp, branch, price, status) ==
  [timestamp |-> timestamp, branch |-> branch, status |-> status,
   firstName |-> nAn, lastName |-> nLee, treatment |-> tFacial,
   totalPrice |-> price, agent |-> agKim]

DashRows ==
  { dashRow(ts, br, p, st) :
      ts \in DashTimestamps, br \in {bFeliz, bPop}, p \in DashPrices,
      st \in DashStatuses }

InitDash ==
  /\ variant = "current"
  /\ now = ReportNow
  /\ db = <<>>
  /\ intake \in SeqsUpTo(DashRows, MaxDashRows)
  /\ cache = NoEntry
  /\ nextId = 1
  /\ res = [op |-> "none"]
  /\ users = <<>>
  /\ inflight = {}

NextDash == GetDashboardOverview

SpecDash == InitDash /\ [][NextDash]_vars

\* the dashboard answered from a sheet that has rows
IsDashboard == res.op = "getDashboardOverview" /\ Len(intake) > 0

\* c tenths of a percent is the value of (t - y) / y * 100 to one decimal
IsChangeOf(c, t, y) ==
  IF y > 0
  THEN LET exact == fraction((t - y) * 100, y)
       IN /\ 2 * (c * exact.den - exact.num * 10) <= exact.den
          /\ 2 * (exact.num * 10 - c * exact.den) <= exact.den
  ELSE IF t > 0 THEN c = 1000
  ELSE c = 0

daysFromCivil(y, m, d) ==
  LET yy == IF m <= 2 THEN y - 1 ELSE y
      era == yy \div 400
      yoe == yy - era * 400
      mp == IF m > 2 THEN m - 3 ELSE m + 9
      doy == (153 * mp + 2) \div 5 + d - 1
      doe == yoe * 365 + yoe \div 4 - yoe \div 100 + doy
  IN era * 146097 + doe - 719468

\* getFullYear(), getMonth(), getDate() of a day number
civilFromDays(day) ==
  LET z == day + 719468
      era == z \div 146097
      doe == z - era * 146097
      yoe == (doe - doe \div 1460 + doe \div 36524 - doe \div 146096) \div 365
      doy == doe - (365 * yoe + yoe \div 4 - yoe \div 100)
      mp == (5 * doy + 2) \div 153
      d == doy - (153 * mp + 2) \div 5 + 1
      m == IF mp < 10 THEN mp + 3 ELSE mp - 9
  IN [year |-> (yoe + era * 400) + (IF m <= 2 THEN 1 ELSE 0), month |-> m - 1, date |-> d]

\* new Date(year, month, date): a month outside 0..11 carries into the year,
\* a date outside the month carries into the next months
MakeDate(year, month, date) ==
  daysFromCivil(year + (month \div 12), (month % 12) + 1, 1) + date - 1

(***************************************************************************)
(* getSalesReport (analytics controller).  Amounts are hundredths, so the  *)
(* final Math.round(x * 100) / 100 of an amount leaves it as it is.        *)
(***************************************************************************)
sComebackBought ==
  <<"C","o","m","e","b","a","c","k"," ","&"," ","b","o","u","g","h","t">>

sArrivedNotPotential ==
  <<"A","r","r","i","v","e","d"," ","n","o","t"," ","p","o","t","e","n","t","i","a","l">>

arrivalStatuses == {sArrivedNotPotential, sArrivedBought, sComebackBought}

\* 'all': the branch parameter that selects every branch
allBranches == <<"a","l","l">>

\* the start day of a preset time range; c is today's year, month and date
presetStartDay(timeRange, t, c) ==
  IF timeRange = "30days" THEN DayOf(t) - 30
  ELSE IF timeRange = "60days" THEN DayOf(t) - 60
  ELSE IF timeRange = "thisMonth" THEN MakeDate(c.year, c.month, 1)
  ELSE IF timeRange = "90days" THEN DayOf(t - 90 * MinutesPerDay)
  ELSE IF timeRange = "1year" THEN MakeDate(c.year - 1, c.month, c.date)
  ELSE MakeDate(c.year, c.month - 6, c.date)

salesRangeTouching(q, t) ==
  LET custom == q.startDate # Null /\ q.endDate # Null
      timeRange == IF q.timeRange = "" THEN "6months" ELSE q.timeRange
      startDate ==
        (IF custom THEN q.startDate
         ELSE presetStartDay(timeRange, t, civilFromDays(DayOf(t)))) * MinutesPerDay
      endDate ==
        IF custom THEN q.endDate * MinutesPerDay + (MinutesPerDay - 1) ELSE t
      rangeDurationMs == endDate - startDate
      previousRangeEnd == startDate
  IN [timeRange |-> IF custom THEN "custom" ELSE timeRange,
      startDate |-> startDate,
      endDate |-> endDate,
      previousRangeEnd |-> previousRangeEnd,
      previousRangeStart |-> previousRangeEnd - rangeDurationMs,
      rangeMidpoint |-> startDate + (rangeDurationMs \div 2)]

\* the range of a request and its comparison windows; the last instant before
\* an instant is one tick earlier
salesRange(q, t) ==
  LET custom == q.startDate # Null /\ q.endDate # Null
      timeRange == IF q.timeRange = "" THEN "6months" ELSE q.timeRange
      startDate ==
        (IF custom THEN q.startDate
         ELSE presetStartDay(timeRange, t, civilFromDays(DayOf(t)))) * MinutesPerDay
      endDate ==
        IF custom THEN q.endDate * MinutesPerDay + (MinutesPerDay - 1) ELSE t
      rangeDurationMs == endDate - startDate
      previousRangeEnd == startDate - 1
  IN [timeRange |-> IF custom THEN "custom" ELSE timeRange,
      startDate |-> startDate,
      endDate |-> endDate,
      previousRangeEnd |-> previousRangeEnd,
      previousRangeStart |-> previousRangeEnd - rangeDurationMs,
      rangeMidpoint |-> startDate + (rangeDurationMs \div 2)]

\* sales.overall += price; sales.byBranch[branch] += price (insertion order)
addSale(sales, branch, price) ==
  [overall |-> sales.overall + price,
   byBranch |->
     IF \E k \in 1..Len(sales.byBranch) : sales.byBranch[k].branch = branch
     THEN [k \in 1..Len(sales.byBranch) |->
             IF sales.byBranch[k].branch = branch
             THEN [sales.byBranch[k] EXCEPT !.sales = @ + price]
             ELSE sales.byBranch[k]]
     ELSE Append(sales.byBranch, [branch |-> branch, sales |-> price])]

\* data[key].sales += price; data[key].bookings += 1, a new entry when absent
addSalesData(data, key, price) ==
  IF key \in DOMAIN data
  THEN [data EXCEPT ![key] = [sales |-> @.sales + price, bookings |-> @.bookings + 1]]
  ELSE [k \in DOMAIN data \cup {key} |->
          IF k = key THEN [sales |-> price, bookings |-> 1] ELSE data[k]]

\* counts[branch] += 1 (insertion order)
addCount(counts, branch) ==
  IF \E k \in 1..Len(counts) : counts[k].branch = branch
  THEN [k \in 1..Len(counts) |->
          IF counts[k].branch = branch THEN [counts[k] EXCEPT !.n = @ + 1]
          ELSE counts[k]]
  ELSE Append(counts, [branch |-> branch, n |-> 1])

noSales == [overall |-> 0, byBranch |-> <<>>]

\* the accumulators before the loop
initialSales ==
  [dailySales |-> noSales, firstHalfSales |-> noSales, secondHalfSales |-> noSales,
   rangeSales |-> noSales, previousRangeSales |-> noSales,
   currentMonthSales |-> noSales, lastMonthSales |-> noSales,
   yearlySales |-> [overall |-> 0, monthlyBreakdown |-> [k \in {} |-> 0]],
   monthlySalesData |-> [k \in {} |-> 0],
   dailySalesData |-> [k \in {} |-> 0],
   totalArrivals |-> 0, totalBookings |-> 0,
   arrivalsByBranch |-> <<>>, bookingsByBranch |-> <<>>]

processSaleNotCancelled(acc, row, q, r, t) ==
  LET branch == row.branch
      status == row.status
      price == parsePrice(row.totalPrice)
      bookingDate == parseDateString(row.date)
      today == DayOf(t) * MinutesPerDay
      current == civilFromDays(DayOf(t))
      booking == civilFromDays(DayOf(bookingDate))
      lastMonth == IF current.month = 0 THEN 11 ELSE current.month - 1
      lastMonthYear == IF current.month = 0 THEN current.year - 1 ELSE current.year
      selected == (q.branch = allBranches \/ branch = q.branch) /\ bookingDate # Null
      inRange == selected /\ bookingDate >= r.startDate /\ bookingDate <= r.endDate
      arrived == inRange /\ status \in arrivalStatuses
      bought == status # sCancelled
      inPrevious == /\ selected /\ bought
                    /\ bookingDate >= r.previousRangeStart
                    /\ bookingDate <= r.previousRangeEnd
      sale == inRange /\ bought
  IN [acc EXCEPT
        !.totalBookings = IF inRange THEN @ + 1 ELSE @,
        !.bookingsByBranch = IF inRange THEN addCount(@, branch) ELSE @,
        !.totalArrivals = IF arrived THEN @ + 1 ELSE @,
        !.arrivalsByBranch = IF arrived THEN addCount(@, branch) ELSE @,
        !.rangeSales = IF sale THEN addSale(@, branch, price) ELSE @,
        !.previousRangeSales = IF inPrevious THEN addSale(@, branch, price) ELSE @,
        !.dailySales =
          IF sale /\ bookingDate >= today /\ bookingDate < today + MinutesPerDay
          THEN addSale(@, branch, price) ELSE @,
        !.firstHalfSales =
          IF sale /\ bookingDate <= r.rangeMidpoint
          THEN addSale(@, branch, price) ELSE @,
        !.secondHalfSales =
          IF sale /\ ~(bookingDate <= r.rangeMidpoint)
          THEN addSale(@, branch, price) ELSE @,
        !.lastMonthSales =
          IF sale /\ booking.year = lastMonthYear /\ booking.month = lastMonth
          THEN addSale(@, branch, price) ELSE @,
        !.yearlySales =
          IF sale /\ booking.year = current.year
          THEN [overall |-> @.overall + price,
                monthlyBreakdown |->
                  addSalesData(@.monthlyBreakdown, booking.month, price)]
          ELSE @,
        !.monthlySalesData =
          IF sale THEN addSalesData(@, <<booking.year, booking.month>>, price) ELSE @,
        !.dailySalesData =
          IF sale THEN addSalesData(@, DayOf(bookingDate), price) ELSE @]

\* one pass of the loop over the data rows: the row is skipped when its branch
\* is not the requested one or its date does not parse; it counts as a booking
\* (and as an arrival) when its date is in the range; its price is a sale only
\* when its status is one of the two purchases
processSale(acc, row, q, r, t) ==
  LET branch == row.branch
      status == row.status
      price == parsePrice(row.totalPrice)
      bookingDate == parseDateString(row.date)
      today == DayOf(t) * MinutesPerDay
      current == civilFromDays(DayOf(t))
      booking == civilFromDays(DayOf(bookingDate))
      lastMonth == IF current.month = 0 THEN 11 ELSE current.month - 1
      lastMonthYear == IF current.month = 0 THEN current.year - 1 ELSE current.year
      selected == (q.branch = allBranches \/ branch = q.branch) /\ bookingDate # Null
      inRange == selected /\ bookingDate >= r.startDate /\ bookingDate <= r.endDate
      arrived == inRange /\ status \in arrivalStatuses
      bought == status = sArrivedBought \/ status = sComebackBought
      inPrevious == /\ selected /\ bought
                    /\ bookingDate >= r.previousRangeStart
                    /\ bookingDate <= r.previousRangeEnd
      sale == inRange /\ bought
  IN [acc EXCEPT
        !.totalBookings = IF inRange THEN @ + 1 ELSE @,
        !.bookingsByBranch = IF inRange THEN addCount(@, branch) ELSE @,
        !.totalArrivals = IF arrived THEN @ + 1 ELSE @,
        !.arrivalsByBranch = IF arrived THEN addCount(@, branch) ELSE @,
        !.rangeSales = IF sale THEN addSale(@, branch, price) ELSE @,
        !.previousRangeSales = IF inPrevious THEN addSale(@, branch, price) ELSE @,
        !.dailySales =
          IF sale /\ bookingDate >= today /\ bookingDate < today + MinutesPerDay
          THEN addSale(@, branch, price) ELSE @,
        !.firstHalfSales =
          IF sale /\ bookingDate <= r.rangeMidpoint
          THEN addSale(@, branch, price) ELSE @,
        !.secondHalfSales =
          IF sale /\ ~(bookingDate <= r.rangeMidpoint)
          THEN addSale(@, branch, price) ELSE @,
        !.lastMonthSales =
          IF sale /\ booking.year = lastMonthYear /\ booking.month = lastMonth
          THEN addSale(@, branch, price) ELSE @,
        !.yearlySales =
          IF sale /\ booking.year = current.year
          THEN [overall |-> @.overall + price,
                monthlyBreakdown |->
                  addSalesData(@.monthlyBreakdown, booking.month, price)]
          ELSE @,
        !.monthlySalesData =
          IF sale THEN addSalesData(@, <<booking.year, booking.month>>, price) ELSE @,
        !.dailySalesData =
          IF sale THEN addSalesData(@, DayOf(bookingDate), price) ELSE @]

RECURSIVE salesLoop(_, _, _, _, _)
salesLoop(rows, n, q, r, t) ==
  IF n = 0 THEN initialSales
  ELSE processSale(salesLoop(rows, n - 1, q, r, t), rows[n], q, r, t)

\* Math.round((part / whole) * 10000) / 100, in hundredths of a percent
rate(part, whole) == IF whole > 0 THEN (2 * part * 10000 + whole) \div (2 * whole) ELSE 0

\* the number of arrivals counted for a branch
arrivalsOf(acc, branch) ==
  IF \E k \in 1..Len(acc.arrivalsByBranch) : acc.arrivalsByBranch[k].branch = branch
  THEN (CHOOSE e \in {acc.arrivalsByBranch[k] : k \in 1..Len(acc.arrivalsByBranch)} :
          e.branch = branch).n
  ELSE 0

\* formatBranchData: the entries by sales, descending
formatBranchData(sales) ==
  [overall |-> sales.overall, byBranch |-> sortDesc(sales.byBranch, "sales")]

\* the entry of a key, zero when nothing was added for it
salesDataOf(data, key) ==
  IF key \in DOMAIN data THEN data[key] ELSE [sales |-> 0, bookings |-> 0]

\* the months from the month of the start to the month of the end
monthlySalesArray(acc, r) ==
  LET s == civilFromDays(DayOf(r.startDate))
      e == civilFromDays(DayOf(r.endDate))
      first == s.year * 12 + s.month
      last == e.year * 12 + e.month
  IN [i \in 1..(IF last >= first THEN last - first + 1 ELSE 0) |->
        LET year == (first + i - 1) \div 12
            month == (first + i - 1) % 12
            data == salesDataOf(acc.monthlySalesData, <<year, month>>)
        IN [year |-> year, month |-> month, sales |-> data.sales,
            bookings |-> data.bookings]]

\* the days from the day of the start to the day of the end
dailySalesArray(acc, r) ==
  LET first == DayOf(r.startDate)
      last == DayOf(r.endDate)
  IN [i \in 1..(IF last >= first THEN last - first + 1 ELSE 0) |->
        LET data == salesDataOf(acc.dailySalesData, first + i - 1)
        IN [date |-> civilFromDays(first + i - 1), sales |-> data.sales,
            bookings |-> data.bookings]]

\* the data of the response, from the range and the accumulators of the loop
formatSales(acc, r, q) ==
     [timeRange |-> r.timeRange,
      branch |-> q.branch,
      arrivalRate |-> rate(acc.totalArrivals, acc.totalBookings),
      totalArrivals |-> acc.totalArrivals,
      totalBookings |-> acc.totalBookings,
      arrivalRateByBranch |->
        sortDesc([k \in 1..Len(acc.bookingsByBranch) |->
                    LET e == acc.bookingsByBranch[k]
                    IN [branch |-> e.branch, bookings |-> e.n,
                        arrivals |-> arrivalsOf(acc, e.branch),
                        arrivalRate |-> rate(arrivalsOf(acc, e.branch), e.n)]],
                 "arrivalRate"),
      rangeSales |-> formatBranchData(acc.rangeSales),
      previousRangeSales |-> formatBranchData(acc.previousRangeSales),
      rangeFirstHalfSales |-> formatBranchData(acc.firstHalfSales),
      rangeSecondHalfSales |-> formatBranchData(acc.secondHalfSales),
      dailySalesAndBookings |-> dailySalesArray(acc, r),
      dailySales |-> formatBranchData(acc.dailySales),
      currentMonthSales |-> formatBranchData(acc.currentMonthSales),
      lastMonthSales |-> formatBranchData(acc.lastMonthSales),
      yearlySales |->
        [overall |-> acc.yearlySales.overall,
         monthlyBreakdown |->
           [m \in 0..11 |-> salesDataOf(acc.yearlySales.monthlyBreakdown, m)]],
      monthlySalesAndBookings |-> monthlySalesArray(acc, r)]

\* the data of the response for a store with at least one data row
salesData(rows, q, t) ==
  formatSales(salesLoop(rows, Len(rows), q, salesRange(q, t), t), salesRange(q, t), q)

\* the answer for a store without a data row
emptySalesData(q) ==
  [timeRange |-> IF q.timeRange = "" THEN "6months" ELSE q.timeRange,
   branch |-> q.branch,
   arrivalRate |-> 0, totalArrivals |-> 0, totalBookings |-> 0,
   arrivalRateByBranch |-> <<>>,
   rangeSales |-> noSales, previousRangeSales |-> noSales,
   rangeFirstHalfSales |-> noSales, rangeSecondHalfSales |-> noSales,
   dailySalesAndBookings |-> <<>>,
   dailySales |-> noSales, firstHalfSales |-> noSales, secondHalfSales |-> noSales,
   currentMonthSales |-> noSales, lastMonthSales |-> noSales,
   yearlySales |-> [overall |-> 0, monthlyBreakdown |-> <<>>],
   monthlySalesAndBookings |-> <<>>]

GetSalesReport(q) ==
  /\ res' = [op |-> "getSalesReport", code |-> 200, query |-> q,
             data |-> IF Len(db) = 0 THEN emptySalesData(q)
                      ELSE salesData(db, q, now)]
  /\ UNCHANGED <<variant, now, db, intake, cache, nextId>>
  /\ UNCHANGED <<users, inflight>>

(***************************************************************************)
(* getSalesReport and getDailyReports on drawn inputs: every DB content of *)
(* at most MaxSalesRows rows over SalesRows, on the request day ReportDay. *)
(***************************************************************************)
\* branch, status and price of a row
stBought == <<bFeliz, sArrivedBought, <<"1","0","0">> >>

stCancelled == <<bFeliz, sCancelled, <<"2","0","0">> >>

stScheduled == <<bFeliz, sScheduled, <<"3","0","0">> >>

stComeback == <<bPop, sComebackBought, <<"3","0","0">> >>

\* the appointment at 10:00, so many days before the request day
daysAgo(k) == (ReportDay - k) * MinutesPerDay + 600

\* a row created today at 08:00
salesRow(date, st) ==
  [timestamp |-> ReportDay * MinutesPerDay + 480, branch |-> st[1], status |-> st[2],
   date |-> date, firstName |-> nAn, lastName |-> nLee, totalPrice |-> st[3],
   phone |-> pAn, socialMedia |-> <<>>, email |-> eAn, agent |-> agKim,
   companionFirstName |-> <<>>, companionLastName |-> <<>>,
   promoHunterStatus |-> sScheduled, matchReason |-> <<>>, matchedSource |-> <<>>,
   matchedRow |-> <<>>, recordId |-> 0, dashStatus |-> st[2],
   cancellationTime |-> EmptyCell]

\* today a row of every kind; two days ago a purchase and a cancellation; five
\* days ago a purchase and a cancellation
SalesRows ==
  { salesRow(daysAgo(0), st) : st \in {stBought, stCancelled, stScheduled, stComeback} }
  \cup { salesRow(daysAgo(2), st) : st \in {stBought, stCancelled} }
  \cup { salesRow(daysAgo(5), st) : st \in {stComeback, stCancelled} }

\* a request without parameters
NoSalesQuery ==
  [timeRange |-> "", branch |-> allBranches, startDate |-> Null, endDate |-> Null]

\* requests: the default range, one preset, custom ranges of four days, of two
\* days, of one day and with the end before the start, and a request for one
\* branch
SalesQueries ==
  { [NoSalesQuery EXCEPT !.timeRange = tr] :
      tr \in {"", "thisMonth"} }
  \cup { [NoSalesQuery EXCEPT !.startDate = ReportDay - 3, !.endDate = ReportDay],
         [NoSalesQuery EXCEPT !.startDate = ReportDay - 1, !.endDate = ReportDay],
         [NoSalesQuery EXCEPT !.startDate = ReportDay, !.endDate = ReportDay],
         [NoSalesQuery EXCEPT !.startDate = ReportDay, !.endDate = ReportDay - 3],
         [NoSalesQuery EXCEPT !.branch = bPop, !.startDate = ReportDay - 3,
                              !.endDate = ReportDay] }

InitSales ==
  /\ variant = "current"
  /\ now = ReportNow
  /\ db \in SeqsUpTo(SalesRows, MaxSalesRows)
  /\ intake = <<>>
  /\ cache = NoEntry
  /\ nextId = 1
  /\ res = [op |-> "none"]
  /\ users = <<>>
  /\ inflight = {}

NextSales ==
  \/ \E q \in SalesQueries : GetSalesReport(q)
  \/ GetDailyReports

SpecSales == InitSales /\ [][NextSales]_vars

(***************************************************************************)
(* Properties of getSalesReport (checked under SpecSales).                 *)
(***************************************************************************)
IsSales == res.op = "getSalesReport" /\ Len(db) > 0

Purchased(row) == row.status \in {sArrivedBought, sComebackBought}

\* the prices of the purchased rows of the requested branch dated in [lo, hi]
RECURSIVE PurchasedSum(_, _, _, _, _)
PurchasedSum(rows, n, q, lo, hi) ==
  IF n = 0 THEN 0
  ELSE PurchasedSum(rows, n - 1, q, lo, hi)
       + (IF /\ Purchased(rows[n])
             /\ (q.branch = allBranches \/ rows[n].branch = q.branch)
             /\ parseDateString(rows[n].date) # Null
             /\ parseDateString(rows[n].date) >= lo
             /\ parseDateString(rows[n].date) <= hi
          THEN parsePrice(rows[n].totalPrice) ELSE 0)

\* every sales total of a response
SalesTotals(data) ==
  [range |-> data.rangeSales, previous |-> data.previousRangeSales,
   firstHalf |-> data.rangeFirstHalfSales, secondHalf |-> data.rangeSecondHalfSales,
   daily |-> data.dailySales, lastMonth |-> data.lastMonthSales,
   yearly |-> data.yearlySales,
   monthly |-> [i \in DOMAIN data.monthlySalesAndBookings |->
                  data.monthlySalesAndBookings[i].sales],
   days |-> [i \in DOMAIN data.dailySalesAndBookings |->
               data.dailySalesAndBookings[i].sales]]

\* the yearly breakdown also counts the purchases of a month
SalesOnly(totals) ==
  [totals EXCEPT !.yearly = [overall |-> @.overall,
                             monthlyBreakdown |-> [m \in 0..11 |-> @.monthlyBreakdown[m].sales]]]

\* three bookings of today priced 100, 200 and 300, the one of 200 cancelled
IsExample(rows) ==
  /\ Len(rows) = 3
  /\ {rows[k] : k \in 1..3} =
       {salesRow(daysAgo(0), st) : st \in {stBought, stCancelled, stScheduled}}

\* C12: in getSalesReport a price reaches a sales total (range, previous range,
\* halves, daily, monthly, yearly, last month) only if the status of the row is
\* 'Arrived & bought' or 'Comeback & bought': the range and previous-range
\* totals are the sums of the purchased rows of their windows, and every sales
\* total is what it would be with the other rows removed.  The booking count of
\* getDailyReports counts every booking that is not cancelled: for bookings
\* priced 100, 200 and 300 with the one of 200 cancelled, the count is 2 and the
\* summed price 400.
C12_SalesOnlyPurchased ==
  /\ IsSales =>
       LET r == salesRange(res.query, now)
       IN /\ res.data.rangeSales.overall =
               PurchasedSum(db, Len(db), res.query, r.startDate, r.endDate)
          /\ res.data.previousRangeSales.overall =
               PurchasedSum(db, Len(db), res.query, r.previousRangeStart,
                            r.previousRangeEnd)
          /\ SalesOnly(SalesTotals(res.data)) =
               SalesOnly(SalesTotals(salesData(SelectSeq(db, Purchased), res.query, now)))
  /\ (IsReport /\ IsExample(db)) =>
       /\ res.reports.otsBookings.count = 2
       /\ res.reports.otsBookings.revenue = 400 * Scale

\* the three bookings of the example in a sales report of the last four days:
\* only the purchase of 100 is a sale
C12_Witness ==
  /\ IsSales
  /\ IsExample(db)
  /\ res.query = [NoSalesQuery EXCEPT !.startDate = ReportDay - 3, !.endDate = ReportDay]
  /\ res.data.rangeSales.overall = 100 * Scale
  /\ res.data.totalBookings = 3

\* the instants at which the windows of a request are compared
Instants(rows, r) ==
  {parseDateString(rows[k].date) : k \in 1..Len(rows)}
  \cup {r.startDate, r.endDate, r.previousRangeStart, r.previousRangeEnd,
        r.rangeMidpoint, r.rangeMidpoint + 1}

\* C13: the previous range of getSalesReport is as long as the requested range,
\* ends one instant before the requested range starts and shares no instant
\* with it, and the sales of the two halves of the range add up to the sales of
\* the range.
C13_WindowsPartition ==
  IsSales =>
    LET r == salesRange(res.query, now)
    IN /\ r.previousRangeEnd - r.previousRangeStart = r.endDate - r.startDate
       /\ r.previousRangeEnd = r.startDate - 1
       /\ \A i \in Instants(db, r) :
            ~ (/\ i >= r.startDate /\ i <= r.endDate
               /\ i >= r.previousRangeStart /\ i <= r.previousRangeEnd)
       /\ res.data.rangeFirstHalfSales.overall + res.data.rangeSecondHalfSales.overall
            = res.data.rangeSales.overall

\* a report with a sale in the first half, one in the second half and one in
\* the previous range
C13_Witness ==
  /\ IsSales
  /\ res.data.rangeFirstHalfSales.overall > 0
  /\ res.data.rangeSecondHalfSales.overall > 0
  /\ res.data.previousRangeSales.overall > 0

(***************************************************************************)
(* User administration (auth controller).  A handler reads the Users sheet *)
(* and, after its checks, writes it with a second store call; other        *)
(* requests run between the two calls.  A request between its calls is an *)
(* element of inflight.                                                    *)
(***************************************************************************)
\* the role column of an administrator
rAdmin == "Admin"

rAgent == "Agent"

\* users.slice(1).find(user => user[0] === userId): the first such data row,
\* 0 when there is none
findUser(rows, userId) ==
  IF \E i \in 1..Len(rows) : rows[i].userId = userId
  THEN CHOOSE i \in 1..Len(rows) :
         /\ rows[i].userId = userId
         /\ \A j \in 1..(i - 1) : rows[j].userId # userId
  ELSE 0

\* the requesting user is a data row with the role Admin
isAdminUser(rows, userId) ==
  findUser(rows, userId) # 0 /\ rows[findUser(rows, userId)].role = rAdmin

\* the number of data rows with the role Admin
adminCount(rows) == Cardinality({i \in 1..Len(rows) : rows[i].role = rAdmin})

\* sheetsService.deleteRow: sheet row rowIndex is removed, the rows below move up
deleteRow(rows, rowIndex) ==
  IF rowIndex - 1 \in 1..Len(rows)
  THEN [i \in 1..(Len(rows) - 1) |-> IF i < rowIndex - 1 THEN rows[i] ELSE rows[i + 1]]
  ELSE rows

\* a sheet row without cells
blankUser == [userId |-> "", role |-> ""]

\* sheetsService.updateRow: sheet row rowIndex holds the values, also when that
\* row is below the last row of the data
writeRow(rows, rowIndex, values) ==
  [i \in 1..(IF rowIndex - 1 > Len(rows) THEN rowIndex - 1 ELSE Len(rows)) |->
     IF i = rowIndex - 1 THEN values
     ELSE IF i <= Len(rows) THEN rows[i] ELSE blankUser]

\* deleteUser up to its write: the checks on the sheet as read
DeleteUserRead(userId, targetUserId) ==
  /\ Cardinality(inflight) < MaxInflight
  /\ LET targetRowIndex == findUser(users, targetUserId)
     IN IF ~isAdminUser(users, userId)
        THEN res' = [op |-> "deleteUser", code |-> 403] /\ UNCHANGED inflight
        ELSE IF targetRowIndex < 1
        THEN res' = [op |-> "deleteUser", code |-> 404] /\ UNCHANGED inflight
        ELSE IF userId = targetUserId
        THEN res' = [op |-> "deleteUser", code |-> 400] /\ UNCHANGED inflight
        ELSE IF users[targetRowIndex].role = rAdmin /\ adminCount(users) <= 1
        THEN res' = [op |-> "deleteUser", code |-> 400] /\ UNCHANGED inflight
        ELSE /\ inflight' = inflight \cup
                  {[op |-> "deleteUser", rowIndex |-> targetRowIndex + 1,
                    values |-> users[targetRowIndex]]}
             /\ UNCHANGED res
  /\ UNCHANGED <<variant, now, db, intake, cache, nextId, users>>

\* updateUserRole up to its write
UpdateUserRoleRead(userId, targetUserId, role) ==
  /\ Cardinality(inflight) < MaxInflight
  /\ LET targetRowIndex == findUser(users, targetUserId)
     IN IF role \notin {rAdmin, rAgent}
        THEN res' = [op |-> "updateUserRole", code |-> 400] /\ UNCHANGED inflight
        ELSE IF ~isAdminUser(users, userId)
        THEN res' = [op |-> "updateUserRole", code |-> 403] /\ UNCHANGED inflight
        ELSE IF targetRowIndex < 1
        THEN res' = [op |-> "updateUserRole", code |-> 404] /\ UNCHANGED inflight
        ELSE IF userId = targetUserId
        THEN res' = [op |-> "updateUserRole", code |-> 400] /\ UNCHANGED inflight
        ELSE /\ inflight' = inflight \cup
                  {[op |-> "updateUserRole", rowIndex |-> targetRowIndex + 1,
                    values |-> [users[targetRowIndex] EXCEPT !.role = role]]}
             /\ UNCHANGED res
  /\ UNCHANGED <<variant, now, db, intake, cache, nextId, users>>

\* the write of a request that passed its checks, and its success response
UserWrite(request) ==
  /\ request \in inflight
  /\ users' = IF request.op = "deleteUser"
              THEN deleteRow(users, request.rowIndex)
              ELSE writeRow(users, request.rowIndex, request.values)
  /\ inflight' = inflight \ {request}
  /\ res' = [op |-> request.op, code |-> 200]
  /\ UNCHANGED <<variant, now, db, intake, cache, nextId>>

(***************************************************************************)
(* The user administration from every Users sheet of at most MaxUsers      *)
(* users that has an Admin.                                                *)
(***************************************************************************)
UserNames == <<"u1", "u2", "u3", "u4">>

UserIds == {UserNames[i] : i \in 1..MaxUsers}

\* the sheets of n users
UserSheets(n) ==
  { [i \in 1..n |-> [userId |-> UserNames[i], role |-> roles[i]]] :
      roles \in [1..n -> {rAdmin, rAgent}] }

InitUsers ==
  /\ variant = "current"
  /\ now = 0
  /\ db = <<>>
  /\ intake = <<>>
  /\ cache = NoEntry
  /\ nextId = 1
  /\ res = [op |-> "none"]
  /\ users \in { u \in UNION {UserSheets(n) : n \in 1..MaxUsers} : adminCount(u) >= 1 }
  /\ inflight = {}

\* the identity of a token may be of a user who is no longer in the sheet
NextUsers ==
  \/ \E userId \in UserIds, targetUserId \in UserIds \cup {"nobody"} :
       DeleteUserRead(userId, targetUserId)
  \/ \E userId \in UserIds, targetUserId \in UserIds \cup {"nobody"},
        role \in {rAdmin, rAgent, "Owner"} :
       UpdateUserRoleRead(userId, targetUserId, role)
  \/ \E request \in inflight : UserWrite(request)

SpecUsers == InitUsers /\ [][NextUsers]_vars

\* C21: from a Users sheet with an Admin, after any interleaving of deleteUser
\* and updateUserRole requests the sheet still has at least one Admin.
C21_AdminRemains == adminCount(users) >= 1

(***************************************************************************)
(* Lookup of a created booking (checked under SpecLookup).                 *)
(***************************************************************************)
\* C22: getBookingById with the record id that createBooking stored for a
\* booking, in the Intake or in the DB sheet, finds the booking: it does not
\* answer 404.
C22_CreatedBookingFound ==
  [][ \A id \in BookingIds :
        (MatchesRecordId(id, intake, db) /\ GetBookingById(id)) => res'.code = 200 ]_vars

(***************************************************************************)
(* createBooking and getOldBookings step by step.  A handler runs up to    *)
(* its next store call; the call takes effect together with the code that  *)
(* led to it, and the code after it runs as a later step, so the steps of  *)
(* other requests fall between a store call and its continuation.  A       *)
(* request between two steps is an element of inflight.                    *)
(***************************************************************************)
\* createBooking up to the read of checkPromoHunter: the duplicate check on
\* the DB sheet as read, the record id and the two rows
CreateBookingCheck(b) ==
  /\ Cardinality(inflight) < MaxInflight
  /\ nextId <= MaxRows
  /\ LET promo == duplicateCheck(variant, b, db, FALSE)
     IN inflight' = inflight \cup
          {[op |-> "createBooking", pc |-> "appendIntake", bookingId |-> nextId,
            newRow |-> newRow(b, now, promo, nextId),
            masterDbRow |-> masterDbRow(b, now, promo, nextId),
            promoHunterStatus |-> promo.status]}
  /\ nextId' = nextId + 1
  /\ UNCHANGED <<variant, now, db, intake, cache, res, users>>

\* a request at one step, moved to the next
moved(request, pc) == (inflight \ {request}) \cup {[request EXCEPT !.pc = pc]}

\* sheetsService.appendRow('Intake', newRow); when the call throws, the catch
\* answers 500
CreateBookingAppendIntake(request, throws) ==
  /\ request \in inflight
  /\ request.op = "createBooking" /\ request.pc = "appendIntake"
  /\ IF throws
     THEN /\ res' = [op |-> "createBooking", code |-> 500]
          /\ inflight' = inflight \ {request}
          /\ UNCHANGED intake
     ELSE /\ intake' = Append(intake, request.newRow)
          /\ inflight' = moved(request, "appendDB")
          /\ UNCHANGED res
  /\ UNCHANGED <<variant, now, db, cache, nextId, users>>

\* sheetsService.appendRow('DB', masterDbRow); when the call throws, the catch
\* answers 500
CreateBookingAppendDB(request, throws) ==
  /\ request \in inflight
  /\ request.op = "createBooking" /\ request.pc = "appendDB"
  /\ IF throws
     THEN /\ res' = [op |-> "createBooking", code |-> 500]
          /\ inflight' = inflight \ {request}
          /\ UNCHANGED db
     ELSE /\ db' = Append(db, request.masterDbRow)
          /\ inflight' = moved(request, "respond")
          /\ UNCHANGED res
  /\ UNCHANGED <<variant, now, intake, cache, nextId, users>>

\* cache.del('old_bookings_all') and the 201 response
CreateBookingRespond(request) ==
  /\ request \in inflight
  /\ request.op = "createBooking" /\ request.pc = "respond"
  /\ cache' = NoEntry
  /\ res' = [op |-> "createBooking", code |-> 201, bookingId |-> request.bookingId,
             promoHunterStatus |-> request.promoHunterStatus]
  /\ inflight' = inflight \ {request}
  /\ UNCHANGED <<variant, now, db, intake, nextId, users>>

\* getOldBookings up to its read: answered from the cache, or the DB sheet is
\* read
GetOldBookingsRead(q) ==
  /\ Cardinality(inflight) < MaxInflight
  /\ LET hit == cacheGet(cache, now)
     IN IF hit.present
        THEN /\ res' = [op |-> "getOldBookings", code |-> 200, query |-> q,
                        body |-> listing(variant, hit.val, q, now)]
             /\ UNCHANGED inflight
        ELSE /\ inflight' = inflight \cup
                  {[op |-> "getOldBookings", pc |-> "set", query |-> q, rows |-> db]}
             /\ UNCHANGED res
  /\ UNCHANGED <<variant, now, db, intake, cache, nextId, users>>

\* getOldBookings after its read: the rows read are cached and listed
GetOldBookingsSet(request) ==
  /\ request \in inflight
  /\ request.op = "getOldBookings"
  /\ IF Len(request.rows) = 0
     THEN /\ res' = [op |-> "getOldBookings", code |-> 200, query |-> request.query,
                     body |-> [bookings |-> <<>>,
                               pagination |-> [page |-> 1, limit |-> request.query.limit,
                                               total |-> 0, totalPages |-> 0]]]
          /\ UNCHANGED cache
     ELSE /\ res' = [op |-> "getOldBookings", code |-> 200, query |-> request.query,
                     body |-> listing(variant, parseRows(request.rows), request.query, now)]
          /\ cache' = cacheSet(parseRows(request.rows), now)
  /\ inflight' = inflight \ {request}
  /\ UNCHANGED <<variant, now, db, intake, nextId, users>>

\* the current controller, requests interleaved
InitRace ==
  /\ variant = "current"
  /\ now = 0
  /\ db = <<>>
  /\ intake = <<>>
  /\ cache = NoEntry
  /\ nextId = 1
  /\ res = [op |-> "none"]
  /\ users = <<>>
  /\ inflight = {}

NextRace ==
  \/ \E b \in CreateBodies : CreateBookingCheck(b)
  \/ \E request \in inflight, throws \in BOOLEAN :
       CreateBookingAppendIntake(request, throws)
  \/ \E request \in inflight, throws \in BOOLEAN :
       CreateBookingAppendDB(request, throws)
  \/ \E request \in inflight : CreateBookingRespond(request)
  \/ \E q \in ListQueries : GetOldBookingsRead(q)
  \/ \E request \in inflight : GetOldBookingsSet(request)

SpecRace == InitRace /\ [][NextRace]_vars

(***************************************************************************)
(* Properties of interleaved requests (checked under SpecRace).            *)
(***************************************************************************)
\* a createBooking whose DB row is stored and whose response is not yet sent
WriteUnanswered ==
  \E request \in inflight : request.op = "createBooking" /\ request.pc = "respond"

\* C23: once every write to the DB sheet has been answered with success, the
\* cache holds no snapshot read before such a write: an entry getOldBookings
\* would serve is the parsed content of the DB sheet.
C23_CacheNeverStale ==
  (~WriteUnanswered /\ cacheGet(cache, now).present) => cache.val = parseRows(db)

\* two DB rows of the same customer: the same non-empty normalized full name,
\* email or digits-only phone
SameCustomer(r1, r2) ==
  \/ SameText(existingFullName(r1), existingFullName(r2))
  \/ SameText(existingEmail(r1), existingEmail(r2))
  \/ SameText(existingPhone(r1), existingPhone(r2))

\* C26: of two stored bookings of the same customer, the one at the higher DB
\* row number has promo_hunter_status 'Promo hunter'.
C26_LaterDuplicateFlagged ==
  \A i \in 1..Len(db), j \in 1..Len(db) :
    (i < j /\ SameCustomer(db[i], db[j])) => db[j].promoHunterStatus = sPromoHunter

\* the record ids of the rows of a sheet
RecordIds(rows) == {rows[i].recordId : i \in 1..Len(rows)}

\* C27: for every createBooking that has terminated, the Intake sheet has a
\* row with its record id if and only if the DB sheet has one.
C27_BothSheetsOrNeither ==
  \A k \in 1..(nextId - 1) :
    (~\E request \in inflight : request.op = "createBooking" /\ request.bookingId = k)
      => (k \in RecordIds(intake) <=> k \in RecordIds(db))

(***************************************************************************)
(* The creation timestamp of a stored booking.                             *)
(***************************************************************************)
\* C24: the creation timestamp of a DB row (column 0) stays the one
\* createBooking wrote, whatever creates and updates follow
C24_CreationTimestampKept ==
  [][ \A i \in 1..Len(db) :
        i <= Len(db') => db'[i].timestamp = db[i].timestamp ]_vars

(***************************************************************************)
(* The role check of updateBooking.                                        *)
(***************************************************************************)
\* C25: an update by a non-Admin never changes the stored status (column 2)
\* or agent (column 17) of any row, whether the request names them or not
C25_AgentKeepsStatusAndAgent ==
  [][ \A id \in NumberRowIds : \A b \in UpdateBodies(db, rowNumberOf(id)) :
        (variant = "current" /\ UpdateBooking(id, "Agent", b))
          => \A i \in 1..Len(db) : /\ db'[i].status = db[i].status
                                   /\ db'[i].agent = db[i].agent ]_vars

(***************************************************************************)
(* The per-branch breakdown of a report section.                           *)
(***************************************************************************)
RECURSIVE SumRevenue(_, _)
SumRevenue(byBranch, S) ==
  IF S = {} THEN 0
  ELSE LET b == CHOOSE x \in S : TRUE
       IN byBranch[b].revenue + SumRevenue(byBranch, S \ {b})

BranchesAddUp(section) ==
  /\ section.count = SumCounts(section.byBranch, DOMAIN section.byBranch)
  /\ section.revenue = SumRevenue(section.byBranch, DOMAIN section.byBranch)

\* C28: in the response of getDailyReports the count and the revenue of
\* otsBookings, overallBookings and cancellations are the sums over byBranch
C28_SectionIsSumOfBranches ==
  IsReport => /\ BranchesAddUp(res.reports.otsBookings)
              /\ BranchesAddUp(res.reports.overallBookings)
              /\ BranchesAddUp(res.reports.cancellations)

(***************************************************************************)
(* The detail endpoints of the daily report: each reads the DB sheet and   *)
(* answers the bookings of one section.                                    *)
(***************************************************************************)
\* the entry pushed for a selected row
detailBooking(row) ==
  [firstName |-> OrElse(row.firstName, <<>>),
   lastName |-> OrElse(row.lastName, <<>>),
   branch |-> OrElse(row.branch, <<>>),
   date |-> row.date,
   totalPrice |-> row.totalPrice,
   status |-> OrElse(row.status, <<>>),
   phone |-> OrElse(row.phone, <<>>),
   email |-> OrElse(row.email, <<>>),
   agent |-> OrElse(row.agent, <<>>)]

\* status.includes('cancel') on the lower-cased status cell
statusCancelled(row) == includes(toLowerCase(OrElse(row.status, <<>>)), sCancelLower)

\* createdDate && createdDate.getTime() === today.getTime()
rowCreatedToday(row, today) ==
  getDateFromTimestamp(row.timestamp) # Null /\ getDateFromTimestamp(row.timestamp) = today

\* the loop of a detail endpoint: the entries of the rows its condition takes,
\* in the order of the sheet
detailLoop(selected) == [i \in 1..Len(selected) |-> detailBooking(selected[i])]

otsSelected(row, today) ==
  /\ rowCreatedToday(row, today)
  /\ isToday(parseBookingDate(row.date), today)
  /\ ~statusCancelled(row)

overallSelected(row, today) ==
  /\ rowCreatedToday(row, today)
  /\ isNext7Days(parseBookingDate(row.date), today)
  /\ ~statusCancelled(row)

tomorrowSelected(row, today) ==
  /\ rowCreatedToday(row, today)
  /\ isTomorrow(parseBookingDate(row.date), today)
  /\ ~statusCancelled(row)

next7DaysSelected(row, today) ==
  /\ isInNext7Days(parseBookingDate(row.date), today)
  /\ ~statusCancelled(row)

cancellationSelected(row, today) ==
  /\ rowCreatedToday(row, today)
  /\ statusCancelled(row)
  /\ isCancelledToday(row.cancellationTime, today)

tomorrowSummarySelected(row, today) ==
  /\ isTomorrow(parseBookingDate(row.date), today)
  /\ ~statusCancelled(row)

respondBookings(op, bookings) ==
  /\ res' = [op |-> op, code |-> 200, bookings |-> bookings]
  /\ UNCHANGED <<variant, now, db, intake, cache, nextId, users, inflight>>

GetOTSBookings ==
  respondBookings("getOTSBookings",
    detailLoop(SelectSeq(db, LAMBDA row : otsSelected(row, DayOf(now)))))

GetOverallBookings ==
  respondBookings("getOverallBookings",
    detailLoop(SelectSeq(db, LAMBDA row : overallSelected(row, DayOf(now)))))

GetTomorrowBookings ==
  respondBookings("getTomorrowBookings",
    detailLoop(SelectSeq(db, LAMBDA row : tomorrowSelected(row, DayOf(now)))))

GetNext7DaysBookings ==
  respondBookings("getNext7DaysBookings",
    detailLoop(SelectSeq(db, LAMBDA row : next7DaysSelected(row, DayOf(now)))))

GetCancellations ==
  respondBookings("getCancellations",
    detailLoop(SelectSeq(db, LAMBDA row : cancellationSelected(row, DayOf(now)))))

GetTomorrowSummary ==
  respondBookings("getTomorrowSummary",
    detailLoop(SelectSeq(db, LAMBDA row : tomorrowSummarySelected(row, DayOf(now)))))

(***************************************************************************)
(* The report and its detail endpoints on drawn inputs: every DB content   *)
(* of at most MaxReportRows rows over DetailRows, on the day ReportDay.    *)
(***************************************************************************)
\* appointments today, tomorrow, or with an empty date cell; not cancelled or
\* cancelled today
DetailRows ==
  { reportRow(ts, br, d, st) :
      ts \in ReportTimestamps, br \in ReportBranches,
      d \in {ReportDay * MinutesPerDay + 600, (ReportDay + 1) * MinutesPerDay + 600,
             EmptyCell},
      st \in { <<sScheduled, EmptyCell>>,
               <<sCancelled, ReportDay * MinutesPerDay + 720>> } }

InitDetail ==
  /\ variant = "current"
  /\ now = ReportNow
  /\ db \in SeqsUpTo(DetailRows, MaxReportRows)
  /\ intake = <<>>
  /\ cache = NoEntry
  /\ nextId = 1
  /\ res = [op |-> "none"]
  /\ users = <<>>
  /\ inflight = {}

NextDetail ==
  \/ GetDailyReports
  \/ GetOTSBookings
  \/ GetOverallBookings
  \/ GetTomorrowBookings
  \/ GetNext7DaysBookings
  \/ GetCancellations
  \/ GetTomorrowSummary

SpecDetail == InitDetail /\ [][NextDetail]_vars

\* the number of bookings a report has for the section of a detail endpoint
sectionCount(reports, op) ==
  CASE op = "getOTSBookings" -> reports.otsBookings.count
    [] op = "getOverallBookings" -> reports.overallBookings.count
    [] op = "getTomorrowBookings" -> BranchTotal(reports.bookedTomorrow)
    [] op = "getNext7DaysBookings" -> BranchTotal(reports.bookedNext7Days)
    [] op = "getCancellations" -> reports.cancellations.count
    [] op = "getTomorrowSummary" -> reports.overallBookingsTomorrow.count

DetailOps ==
  {"getOTSBookings", "getOverallBookings", "getTomorrowBookings",
   "getNext7DaysBookings", "getCancellations", "getTomorrowSummary"}

\* C29: on the same store and day, every detail endpoint answers as many
\* bookings as its section of getDailyReports counts
C29_SectionsAgreeWithDetails ==
  res.op \in DetailOps
    => Len(res.bookings) = sectionCount(dailyReports(db, now), res.op)

(***************************************************************************)
(* The appointment-date presets of the listing.                            *)
(***************************************************************************)
\* C30: with appointmentDateRange 'today' the listing of the current variant
\* returns no booking whose appointment date parses to another day than the
\* request day, and with 'tomorrow' none of another day than the day after
C30_AppointmentPresetDay ==
  ( /\ IsListing
    /\ variant = "current"
    /\ ~(res.query.appointmentStartDate # Null /\ res.query.appointmentEndDate # Null)
    /\ res.query.appointmentDateRange \in {"today", "tomorrow"} )
    => \A i \in 1..Len(res.body.bookings) :
         LET appointmentDate == parseDateString(res.body.bookings[i].date)
         IN appointmentDate # Null
              => DayOf(appointmentDate)
                   = DayOf(now) + (IF res.query.appointmentDateRange = "today"
                                   THEN 0 ELSE 1)

====
